---------------------------- MODULE Spec2Model ----------------------------
(***************************************************************************)
(* A model of the shop: the in-memory domain model (src/models.py:         *)
(* Product, OrderItem, Order and Customer) and the analysis built on it    *)
(* (src/analysis.py: the aggregations of DataAnalyzer, the graphs of       *)
(* NetworkAnalyzer and the two sorting functions).  Methods and functions  *)
(* are operators that take the object (or the field they touch) and return *)
(* the new object together with what the call returned or raised; the      *)
(* actions apply them to the state.  Prices are modelled by small naturals *)
(* (exact in floating point), strings that are pattern-matched by          *)
(* sequences of characters, data frames by sequences of rows.              *)
(***************************************************************************)
EXTENDS Integers, Sequences, FiniteSets, TLC

(* ------------------------------ bounds --------------------------------- *)
\* Largest price and stock given to the Product constructor.
MaxPrice == 2
MaxStock == 2
\* Largest |delta| given to update_stock and the cap on the stock reached.
MaxDelta == 3
StockCap == 4
\* Largest quantity given to add_item, and the cap on a line's quantity.
MaxAdd == 2
MaxQty == 2
\* Longest order sequence of a customer, and the orders that can be added.
MaxOrders == 3
\* Longest list given to a sort, and the number of different keys in it.
MaxSortLen == 4
MaxSortKey == 3
\* Longest list of orders whose sales dynamics are taken.
MaxDynOrders == 3
\* Longest lists of orders given to the per-product statistics, to the top
\* customers, and to all operations together.
MaxStatOrders == 3
MaxTopOrders == 3
MaxSparseOrders == 2
\* Longest list of orders given to the shared-purchase graph, and the most
\* customers given to the shared-city graph.
MaxGraphOrders == 3
MaxCityCustomers == 4

\* The product_ids of the catalogue, and one id no product has (remove_item
\* of a product that was never added).
ProductIds == {1, 2, 3}
UnknownId == 999
\* The order_ids of the orders a customer can be given.
OrderIds == {1, 2}
CtorPrices == (0 - 1)..MaxPrice
CtorStocks == (0 - 1)..MaxStock
\* The two prices the catalogue moves a product between.
Prices == {1, 2}
Deltas == (0 - MaxDelta)..MaxDelta
Quantities == (0 - 1)..MaxAdd

(* ------------------------------ state ---------------------------------- *)
VARIABLES
    product,    \* a Product object under construction and stock adjustment
    products,   \* the catalogue: product_id -> Product object
    items,      \* Order.items of one order: a sequence of OrderItem objects
    customer,   \* a Customer object, or NoCustomer before construction
    added,      \* history: the arguments of the add_order calls, in call order
    last,       \* the last call: its name, arguments and result
    orderObjs,  \* the Order objects: order_id -> Order object
    orderList,  \* the list of orders handed to a sort or to an analyzer
    result,     \* what the last sort or aggregation returned
    customerList, \* the list of customers handed to an analyzer
    calls,      \* the calls of a sort that are entered and not yet left
    repository, \* the lists _customers, _products, _orders of a DataRepository
    customerObjs \* the Customer objects given to a repository, each with its orders

vars == <<product, products, items, customer, added, last,
          orderObjs, orderList, result, customerList,
          calls, repository, customerObjs>>

NoProduct == [product_id |-> 0, price |-> 0, stock |-> 0, none |-> TRUE]
NoCustomer == [email |-> <<>>, phone |-> <<>>, orders |-> <<>>, none |-> TRUE]
NoCall == [op |-> "none", ret |-> "None"]
\* None given as a date; the moments are the positive numbers.
NoDate == 0
NoOrder == [order_id |-> 0, customer |-> 0, order_date |-> NoDate,
            items |-> <<>>, status |-> "", none |-> TRUE]
NoResult == <<>>
NoRepository == [customers |-> <<>>, products |-> <<>>, orders |-> <<>>]

(* ------------------------------ Product -------------------------------- *)
\* Product.__init__: the new object, or the ValueError it raises.
Product_init_NoStockCheck(product_id, price, stock) ==
    IF price < 0
    THEN [raised |-> TRUE, obj |-> NoProduct]
    ELSE [raised |-> FALSE,
          obj |-> [product_id |-> product_id, price |-> price,
                   stock |-> stock, none |-> FALSE]]

Product_init(product_id, price, stock) ==
    IF price < 0
    THEN [raised |-> TRUE, obj |-> NoProduct]
    ELSE IF stock < 0
    THEN [raised |-> TRUE, obj |-> NoProduct]
    ELSE [raised |-> FALSE,
          obj |-> [product_id |-> product_id, price |-> price,
                   stock |-> stock, none |-> FALSE]]

\* Product.update_stock: the object after the call and what the call gave.
update_stock_NoCheck(self, quantity) ==
    [self |-> [self EXCEPT !.stock = self.stock + quantity], ret |-> "True"]

update_stock(self, quantity) ==
    LET new_stock == self.stock + quantity
    IN  IF new_stock < 0
        THEN [self |-> self, ret |-> "ValueError"]
        ELSE [self |-> [self EXCEPT !.stock = new_stock], ret |-> "True"]

\* Product.is_available
is_available_OffByOne(self, quantity) == self.stock + 1 >= quantity

is_available(self, quantity) == self.stock >= quantity

(* --------------------- actions on a single product --------------------- *)
NewProduct(pid, price, stock) ==
    /\ product.none
    /\ LET r == Product_init(pid, price, stock)
       IN  /\ product' = r.obj
           /\ last' = [op |-> "Product", price |-> price, stock |-> stock,
                       ret |-> IF r.raised THEN "ValueError" ELSE "None"]
    /\ UNCHANGED <<products, items, customer, added, orderObjs, orderList, result,
                   customerList,
                   calls, repository, customerObjs>>

UpdateStock(delta) ==
    /\ ~product.none
    /\ product.stock + delta <= StockCap
    /\ LET r == update_stock(product, delta)
       IN  /\ product' = r.self
           /\ last' = [op |-> "update_stock", quantity |-> delta, ret |-> r.ret]
    /\ UNCHANGED <<products, items, customer, added, orderObjs, orderList, result,
                   customerList,
                   calls, repository, customerObjs>>

InitProduct ==
    /\ product = NoProduct
    /\ calls = <<>>
    /\ repository = NoRepository
    /\ customerObjs = <<>>
    /\ products = [p \in ProductIds |-> NoProduct]
    /\ items = <<>>
    /\ customer = NoCustomer
    /\ added = <<>>
    /\ last = NoCall
    /\ orderObjs = [o \in OrderIds |-> NoOrder]
    /\ orderList = <<>>
    /\ result = NoResult
    /\ customerList = <<>>

NextProduct ==
    \/ \E pid \in ProductIds, price \in CtorPrices, stock \in CtorStocks :
           NewProduct(pid, price, stock)
    \/ \E delta \in Deltas : UpdateStock(delta)

SpecProduct == InitProduct /\ [][NextProduct]_vars


(* ------------------------- OrderItem and Order ------------------------- *)
\* The two ValueErrors add_item can end with, told apart by their message.
Unavailable == "ValueError: unavailable"
BadQuantity == "ValueError: quantity"

\* The optional argument price_at_time: <<>> is None, <<v>> is the value v.
NoPrice == <<>>

\* OrderItem.__init__: a line refers to its product (here by the product's
\* key in the catalogue, which is its product_id).
OrderItem_init(prod, quantity, price_at_time) ==
    IF quantity <= 0
    THEN [raised |-> TRUE, obj |-> [product |-> 0, quantity |-> 0, price_at_time |-> 0]]
    ELSE [raised |-> FALSE,
          obj |-> [product |-> prod.product_id,
                   quantity |-> quantity,
                   price_at_time |-> IF price_at_time # NoPrice
                                     THEN price_at_time[1] ELSE prod.price]]

\* OrderItem.get_total
OrderItem_get_total(item) == item.price_at_time * item.quantity

\* The index of the first line of product_id (the for loops of add_item and
\* remove_item stop at the first match), 0 when there is none.
FirstLine(self_items, product_id) ==
    LET hits == {i \in 1..Len(self_items) : self_items[i].product = product_id}
    IN  IF hits = {} THEN 0 ELSE CHOOSE i \in hits : \A j \in hits : i <= j

\* Order.add_item: the lines after the call and what the call gave.
add_item_RefreshPrice(self_items, prod, quantity) ==
    IF ~is_available(prod, quantity)
    THEN [items |-> self_items, ret |-> Unavailable]
    ELSE LET i == FirstLine(self_items, prod.product_id)
         IN  IF i # 0
             THEN [items |-> [self_items EXCEPT ![i].quantity = @ + quantity,
                                                ![i].price_at_time = prod.price],
                   ret |-> "None"]
             ELSE LET order_item == OrderItem_init(prod, quantity, NoPrice)
                  IN  IF order_item.raised
                      THEN [items |-> self_items, ret |-> BadQuantity]
                      ELSE [items |-> Append(self_items, order_item.obj),
                            ret |-> "None"]

add_item_NoMerge(self_items, prod, quantity) ==
    IF ~is_available(prod, quantity)
    THEN [items |-> self_items, ret |-> Unavailable]
    ELSE LET order_item == OrderItem_init(prod, quantity, NoPrice)
         IN  IF order_item.raised
             THEN [items |-> self_items, ret |-> BadQuantity]
             ELSE [items |-> Append(self_items, order_item.obj), ret |-> "None"]

add_item(self_items, prod, quantity) ==
    IF ~is_available(prod, quantity)
    THEN [items |-> self_items, ret |-> Unavailable]
    ELSE LET i == FirstLine(self_items, prod.product_id)
         IN  IF i # 0
             THEN [items |-> [self_items EXCEPT ![i].quantity = @ + quantity],
                   ret |-> "None"]
             ELSE LET order_item == OrderItem_init(prod, quantity, NoPrice)
                  IN  IF order_item.raised
                      THEN [items |-> self_items, ret |-> BadQuantity]
                      ELSE [items |-> Append(self_items, order_item.obj),
                            ret |-> "None"]

\* del self.items[i]
DeleteAt(s, i) == SubSeq(s, 1, i - 1) \o SubSeq(s, i + 1, Len(s))

\* Order.remove_item
remove_item_Reversed(self_items, product_id) ==
    LET i == FirstLine(self_items, product_id)
        rest == DeleteAt(self_items, i)
    IN  IF i # 0
        THEN [items |-> [k \in 1..Len(rest) |-> rest[Len(rest) + 1 - k]],
              ret |-> "True"]
        ELSE [items |-> self_items, ret |-> "False"]

remove_item(self_items, product_id) ==
    LET i == FirstLine(self_items, product_id)
    IN  IF i # 0
        THEN [items |-> DeleteAt(self_items, i), ret |-> "True"]
        ELSE [items |-> self_items, ret |-> "False"]

\* Order.get_total: sum(item.get_total() for item in self.items), the lines
\* added up from the first to the last.
RECURSIVE SumTotals(_, _)
SumTotals(self_items, n) ==
    IF n = 0 THEN 0
    ELSE SumTotals(self_items, n - 1) + OrderItem_get_total(self_items[n])

get_total_LastLineOnly(self_items) ==
    IF self_items = <<>> THEN 0
    ELSE OrderItem_get_total(self_items[Len(self_items)])

get_total(self_items) == SumTotals(self_items, Len(self_items))

\* Order.get_items_count: sum(item.quantity for item in self.items)
RECURSIVE SumQuantities(_, _)
SumQuantities(self_items, n) ==
    IF n = 0 THEN 0
    ELSE SumQuantities(self_items, n - 1) + self_items[n].quantity

get_items_count(self_items) == SumQuantities(self_items, Len(self_items))

(* ------------------------- actions on an order ------------------------- *)
\* order.add_item(products[p], q).  The guard caps the quantity of a line.
AddItem(p, q) ==
    /\ LET r == add_item(items, products[p], q)
       IN  /\ \A i \in 1..Len(r.items) :
                 r.items[i].quantity \in 0..MaxQty
           /\ items' = r.items
           /\ last' = [op |-> "add_item", ret |-> r.ret]
    /\ UNCHANGED <<product, products, customer, added, orderObjs, orderList, result,
                   customerList,
                   calls, repository, customerObjs>>

\* order.remove_item(id)
RemoveItem(id) ==
    /\ LET r == remove_item(items, id)
       IN  /\ items' = r.items
           /\ last' = [op |-> "remove_item", ret |-> r.ret]
    /\ UNCHANGED <<product, products, customer, added, orderObjs, orderList, result,
                   customerList,
                   calls, repository, customerObjs>>

\* product.price = v: the catalogue changes a price (the attribute is public).
SetPrice(p, v) ==
    /\ products[p].price # v
    /\ products' = [products EXCEPT ![p].price = v]
    /\ last' = [op |-> "set_price", ret |-> "None"]
    /\ UNCHANGED <<product, items, customer, added, orderObjs, orderList, result,
                   customerList,
                   calls, repository, customerObjs>>

\* The catalogue the order draws on: every product constructed with the
\* lowest price; the first one scarce, the others fully stocked.
InitStock(p) == IF p = 1 THEN 1 ELSE MaxStock

InitOrder ==
    /\ product = NoProduct
    /\ calls = <<>>
    /\ repository = NoRepository
    /\ customerObjs = <<>>
    /\ products = [p \in ProductIds |-> Product_init(p, 1, InitStock(p)).obj]
    /\ items = <<>>
    /\ customer = NoCustomer
    /\ added = <<>>
    /\ last = NoCall
    /\ orderObjs = [o \in OrderIds |-> NoOrder]
    /\ orderList = <<>>
    /\ result = NoResult
    /\ customerList = <<>>

NextOrder ==
    \/ \E p \in ProductIds, q \in Quantities : AddItem(p, q)
    \/ \E id \in ProductIds \cup {UnknownId} : RemoveItem(id)
    \/ \E p \in ProductIds, v \in Prices : SetPrice(p, v)

SpecOrder == InitOrder /\ [][NextOrder]_vars

(* ------------------------- Person and Customer ------------------------- *)
\* Strings that are matched against a pattern are sequences of characters.
Digit == {"0", "1", "2", "3", "4", "5", "6", "7", "8", "9"}
Letter == {"a", "b", "c", "o", "m", "x", "A", "Z"}
Whitespace == {" ", "\t", "\n"}

\* The quantifiers {10,15} of the phone pattern and {2,} of the email pattern.
PhoneBodyMin == 10
PhoneBodyMax == 15
TldMin == 2

\* $ of a pattern used with re.match: the end of the string, or the place
\* before a newline that ends the string.
DollarAt(s, n) ==
    \/ n = Len(s)
    \/ n = Len(s) - 1 /\ s[Len(s)] = "\n"

\* re.match(r'^[a-zA-Z0-9._%+-]+@[a-zA-Z0-9.-]+\.[a-zA-Z]{2,}$', s)
EmailLocalClass == Letter \cup Digit \cup {".", "_", "%", "+", "-"}
EmailDomainClass == Letter \cup Digit \cup {".", "-"}

re_match_email(s) ==
    \E at \in 1..Len(s), dot \in 1..Len(s), end \in 1..Len(s) :
        /\ 1 < at
        /\ \A k \in 1..(at - 1) : s[k] \in EmailLocalClass
        /\ s[at] = "@"
        /\ at + 1 < dot
        /\ \A k \in (at + 1)..(dot - 1) : s[k] \in EmailDomainClass
        /\ s[dot] = "."
        /\ end - dot >= TldMin
        /\ \A k \in (dot + 1)..end : s[k] \in Letter
        /\ DollarAt(s, end)

\* re.match(r'^(\+7|8)[\d\(\)\-\s]{10,15}$', s)
PhoneBodyClass == Digit \cup {"(", ")", "-"} \cup Whitespace

re_match_phone(s) ==
    \E start \in {1, 2}, end \in 1..Len(s) :
        /\ \/ start = 2 /\ Len(s) >= 2 /\ s[1] = "+" /\ s[2] = "7"
           \/ start = 1 /\ Len(s) >= 1 /\ s[1] = "8"
        /\ end - start \in PhoneBodyMin..PhoneBodyMax
        /\ \A k \in (start + 1)..end : s[k] \in PhoneBodyClass
        /\ DollarAt(s, end)

\* re.sub(r'[^\d+()]', '', phone)
clean_phone(phone) ==
    LET Kept(c) == c \in Digit \cup {"+", "(", ")"}
    IN  SelectSeq(phone, Kept)

\* Person._validate_email: whether it raises
validate_email_raises(email) == ~re_match_email(email)

\* Person._validate_phone: whether it raises; the phone returned (and
\* stored) is the one passed in.
validate_phone_raises(phone) == ~re_match_phone(clean_phone(phone))

\* Customer.__init__ (with Person.__init__): email first, then phone.
Customer_init(email, phone) ==
    IF validate_email_raises(email)
    THEN [raised |-> TRUE, obj |-> NoCustomer]
    ELSE IF validate_phone_raises(phone)
    THEN [raised |-> TRUE, obj |-> NoCustomer]
    ELSE [raised |-> FALSE,
          obj |-> [email |-> email, phone |-> phone, orders |-> <<>>,
                   none |-> FALSE]]

\* Customer.add_order
add_order_Unique(self_orders, order) ==
    IF \E i \in 1..Len(self_orders) : self_orders[i] = order
    THEN self_orders
    ELSE Append(self_orders, order)

add_order(self_orders, order) == Append(self_orders, order)

\* Customer.get_orders_count
get_orders_count(self_orders) == Len(self_orders)

(* --------------------------- inputs: strings --------------------------- *)
Nines(n) == [i \in 1..n |-> "9"]

\* Phones: a prefix, a run of digits around the two lengths of the pattern,
\* and at most one more character before the prefix, after it or at the end;
\* and the two phones of the tests.
PhonePrefixes == {<<"+", "7">>, <<"8">>, <<"7">>, <<"+", "8">>}
PhoneExtras == {<<>>, <<"-">>, <<" ">>, <<"(">>, <<"a">>, <<"+">>}
PhoneDigitCounts ==
    {PhoneBodyMin - 1, PhoneBodyMin, PhoneBodyMax, PhoneBodyMax + 1}

TestPhone ==
    <<"+", "7", "(", "9", "9", "9", ")", "1", "2", "3", "-", "4", "5", "-", "6", "7">>

Phones ==
    {TestPhone, <<"1", "2", "3">>}
    \cup {pre \o x \o Nines(n) :
              pre \in PhonePrefixes, x \in PhoneExtras, n \in PhoneDigitCounts}
    \cup {pre \o Nines(n) \o x :
              pre \in PhonePrefixes, x \in PhoneExtras, n \in PhoneDigitCounts}
    \cup {x \o pre \o Nines(n) :
              pre \in PhonePrefixes, x \in PhoneExtras, n \in PhoneDigitCounts}

\* Emails: local part, @, domain, top-level domain, each present or not,
\* well-formed or not.
Emails ==
    {loc \o at \o dom \o tld :
        loc \in {<<>>, <<"a">>, <<"a", "!">>},
        at \in {<<>>, <<"@">>},
        dom \in {<<>>, <<"b">>, <<"b", "_">>},
        tld \in {<<>>, <<".", "c">>, <<".", "c", "o">>, <<".", "c", "1">>}}

(* ------------------------ actions on a customer ------------------------ *)
\* Customer(id, name, email, phone): the one constructor call of the object.
NewCustomer ==
    /\ customer.none
    /\ last = NoCall
    /\ \E email \in Emails, phone \in Phones :
           LET r == Customer_init(email, phone)
           IN  /\ customer' = r.obj
               /\ last' = [op |-> "Customer", email |-> email, phone |-> phone,
                           ret |-> IF r.raised THEN "ValueError" ELSE "None"]
    /\ UNCHANGED <<product, products, items, added, orderObjs, orderList, result,
                   customerList,
                   calls, repository, customerObjs>>

\* customer.add_order(order); an order is referred to by its order_id.
AddOrder(o) ==
    /\ ~customer.none
    /\ Len(customer.orders) < MaxOrders
    /\ customer' = [customer EXCEPT !.orders = add_order(@, o)]
    /\ added' = Append(added, o)
    /\ last' = [op |-> "add_order", ret |-> "None"]
    /\ UNCHANGED <<product, products, items, orderObjs, orderList, result, customerList,
                   calls, repository, customerObjs>>

NextCustomer ==
    \/ NewCustomer
    \/ \E o \in OrderIds : AddOrder(o)

\* The state before construction is the same for every object.
SpecCustomer == InitProduct /\ [][NextCustomer]_vars

(* --------------------------- Order objects ----------------------------- *)
\* The statuses of the application, transliterated: "Новый" (new),
\* "В обработке" (in processing), "Завершен" (completed).
StatusNew == "Novyi"
Statuses == {StatusNew, "V obrabotke", "Zavershen"}
\* The dates an order is constructed with (None or a moment), and the
\* moments datetime.now() can give to an order constructed without one.
CtorDates == {NoDate, 1}
Clock == {2, 3}

\* Order.__init__; customer is the customer_id of the owner.
Order_init(order_id, cust, order_date, now) ==
    [order_id |-> order_id, customer |-> cust,
     order_date |-> IF order_date = NoDate THEN now ELSE order_date,
     items |-> <<>>, status |-> StatusNew, none |-> FALSE]

\* Order.update_status
update_status_FinalStays(self, new_status) ==
    IF self.status = "Zavershen" THEN self
    ELSE [self EXCEPT !.status = new_status]

update_status(self, new_status) == [self EXCEPT !.status = new_status]

\* Customer.get_total_spent: sum(order.get_total() for order in self.orders);
\* self.orders refers to the Order objects, read when the call is made.
RECURSIVE SumOrderTotals(_, _, _)
SumOrderTotals(self_orders, objs, n) ==
    IF n = 0 THEN 0
    ELSE SumOrderTotals(self_orders, objs, n - 1)
             + get_total(objs[self_orders[n]].items)

RECURSIVE SumSetTotals(_, _)
SumSetTotals(ids, objs) ==
    IF ids = {} THEN 0
    ELSE LET o == CHOOSE x \in ids : TRUE
         IN  get_total(objs[o].items) + SumSetTotals(ids \ {o}, objs)

get_total_spent_Distinct(self_orders, objs) ==
    SumSetTotals({self_orders[i] : i \in 1..Len(self_orders)}, objs)

get_total_spent(self_orders, objs) ==
    SumOrderTotals(self_orders, objs, Len(self_orders))

(* ----------------------- actions on Order objects ---------------------- *)
\* Order(o, customer, date): the constructor call of order o.
NewOrder(o, order_date, now) ==
    /\ orderObjs[o].none
    /\ orderObjs' = [orderObjs EXCEPT ![o] = Order_init(o, 1, order_date, now)]
    /\ last' = [op |-> "Order", ret |-> "None", order |-> o]
    /\ UNCHANGED <<product, products, items, customer, added, orderList, result,
                   customerList,
                   calls, repository, customerObjs>>

\* orderObjs[o].update_status(s)
UpdateStatus(o, s) ==
    /\ ~orderObjs[o].none
    /\ orderObjs' = [orderObjs EXCEPT ![o] = update_status(@, s)]
    /\ last' = [op |-> "update_status", ret |-> "None", order |-> o,
                from |-> orderObjs[o].status, new_status |-> s]
    /\ UNCHANGED <<product, products, items, customer, added, orderList, result,
                   customerList,
                   calls, repository, customerObjs>>

\* orderObjs[o].add_item(products[p], q).  The guard caps a line's quantity.
OrderAddItem_TakesStock(o, p, q) ==
    /\ ~orderObjs[o].none
    /\ LET r == add_item(orderObjs[o].items, products[p], q)
       IN  /\ \A i \in 1..Len(r.items) :
                 r.items[i].quantity \in 0..MaxQty
           /\ orderObjs' = [orderObjs EXCEPT ![o].items = r.items]
           /\ products' = IF r.ret = "None"
                          THEN [products EXCEPT ![p].stock = @ - q]
                          ELSE products
           /\ last' = [op |-> "add_item", ret |-> r.ret]
    /\ UNCHANGED <<product, items, customer, added, orderList, result,
                   customerList,
                   calls, repository, customerObjs>>

OrderAddItem(o, p, q) ==
    /\ ~orderObjs[o].none
    /\ LET r == add_item(orderObjs[o].items, products[p], q)
       IN  /\ \A i \in 1..Len(r.items) :
                 r.items[i].quantity \in 0..MaxQty
           /\ orderObjs' = [orderObjs EXCEPT ![o].items = r.items]
           /\ last' = [op |-> "add_item", ret |-> r.ret]
    /\ UNCHANGED <<product, products, items, customer, added, orderList, result,
                   customerList,
                   calls, repository, customerObjs>>

\* orderObjs[o].remove_item(id)
OrderRemoveItem(o, id) ==
    /\ ~orderObjs[o].none
    /\ LET r == remove_item(orderObjs[o].items, id)
       IN  /\ orderObjs' = [orderObjs EXCEPT ![o].items = r.items]
           /\ last' = [op |-> "remove_item", ret |-> r.ret]
    /\ UNCHANGED <<product, products, items, customer, added, orderList, result,
                   customerList,
                   calls, repository, customerObjs>>

\* customer.get_total_spent(); the record keeps the call that preceded it.
TotalSpent ==
    /\ ~customer.none
    /\ last' = [op |-> "get_total_spent", after |-> last.op,
                ret |-> get_total_spent(customer.orders, orderObjs)]
    /\ UNCHANGED <<product, products, items, customer, added, orderObjs,
                   orderList, result,
                   customerList,
                   calls, repository, customerObjs>>

\* One order under construction, status changes and line changes.
StatusProducts == {1}
AddQuantities == 1..MaxAdd

NextStatus ==
    \/ \E o \in OrderIds, d \in CtorDates, now \in Clock : NewOrder(o, d, now)
    \/ \E o \in OrderIds, s \in Statuses : UpdateStatus(o, s)
    \/ \E o \in OrderIds, p \in StatusProducts, q \in AddQuantities :
           OrderAddItem(o, p, q)

SpecStatus == InitOrder /\ [][NextStatus]_vars

\* A customer and two orders of theirs, constructed; the catalogue has a
\* cheap product and a dear one.
SpendingProducts == {1, 2}
SpendingPrice(p) == IF p = 1 THEN 1 ELSE MaxPrice

InitSpending ==
    /\ product = NoProduct
    /\ calls = <<>>
    /\ repository = NoRepository
    /\ customerObjs = <<>>
    /\ products =
           [p \in ProductIds |-> Product_init(p, SpendingPrice(p), MaxStock).obj]
    /\ items = <<>>
    /\ customer = Customer_init(<<"a", "@", "b", ".", "c", "o">>, TestPhone).obj
    /\ added = <<>>
    /\ last = NoCall
    /\ orderObjs = [o \in OrderIds |-> Order_init(o, 1, 1, 1)]
    /\ orderList = <<>>
    /\ result = NoResult
    /\ customerList = <<>>

NextSpending ==
    \/ \E o \in OrderIds : AddOrder(o)
    \/ \E o \in OrderIds, p \in SpendingProducts, q \in AddQuantities :
           OrderAddItem(o, p, q)
    \/ \E o \in OrderIds, id \in SpendingProducts : OrderRemoveItem(o, id)
    \/ TotalSpent

SpecSpending == InitSpending /\ [][NextSpending]_vars

(* ------------------------------ sorting -------------------------------- *)
\* quicksort_orders_by_date: the pivot is orders[len(orders) // 2]; three
\* passes over the list select the orders dated before, at and after the
\* pivot date (the other way round when reverse is set).
RECURSIVE quicksort_PivotOnly(_, _)
quicksort_PivotOnly(orders, reverse) ==
    IF Len(orders) <= 1 THEN orders
    ELSE LET pivot == orders[(Len(orders) \div 2) + 1]
             pivot_date == pivot.order_date
             left == SelectSeq(orders, LAMBDA x :
                         IF reverse THEN x.order_date > pivot_date
                                    ELSE x.order_date < pivot_date)
             right == SelectSeq(orders, LAMBDA x :
                         IF reverse THEN x.order_date < pivot_date
                                    ELSE x.order_date > pivot_date)
         IN  quicksort_PivotOnly(left, reverse) \o <<pivot>>
                 \o quicksort_PivotOnly(right, reverse)

Reversed(s) == [i \in 1..Len(s) |-> s[Len(s) + 1 - i]]

RECURSIVE quicksort_MiddleReversed(_, _)
quicksort_MiddleReversed(orders, reverse) ==
    IF Len(orders) <= 1 THEN orders
    ELSE LET pivot == orders[(Len(orders) \div 2) + 1]
             pivot_date == pivot.order_date
             left == SelectSeq(orders, LAMBDA x :
                         IF reverse THEN x.order_date > pivot_date
                                    ELSE x.order_date < pivot_date)
             middle == SelectSeq(orders, LAMBDA x : x.order_date = pivot_date)
             right == SelectSeq(orders, LAMBDA x :
                         IF reverse THEN x.order_date < pivot_date
                                    ELSE x.order_date > pivot_date)
         IN  quicksort_MiddleReversed(left, reverse) \o Reversed(middle)
                 \o quicksort_MiddleReversed(right, reverse)

RECURSIVE quicksort_orders_by_date(_, _)
quicksort_orders_by_date(orders, reverse) ==
    IF Len(orders) <= 1 THEN orders
    ELSE LET pivot == orders[(Len(orders) \div 2) + 1]
             pivot_date == pivot.order_date
             left == SelectSeq(orders, LAMBDA x :
                         IF reverse THEN x.order_date > pivot_date
                                    ELSE x.order_date < pivot_date)
             middle == SelectSeq(orders, LAMBDA x : x.order_date = pivot_date)
             right == SelectSeq(orders, LAMBDA x :
                         IF reverse THEN x.order_date < pivot_date
                                    ELSE x.order_date > pivot_date)
         IN  quicksort_orders_by_date(left, reverse) \o middle
                 \o quicksort_orders_by_date(right, reverse)

\* merge_two_sorted_lists: the while loop with its two indices (from 1
\* here), then the two extend calls.
RECURSIVE MergeLoop_Strict(_, _, _, _, _, _)
MergeLoop_Strict(left, right, reverse, i, j, res) ==
    IF i <= Len(left) /\ j <= Len(right)
    THEN IF (IF reverse
             THEN get_total(left[i].items) > get_total(right[j].items)
             ELSE get_total(left[i].items) < get_total(right[j].items))
         THEN MergeLoop_Strict(left, right, reverse, i + 1, j,
                               Append(res, left[i]))
         ELSE MergeLoop_Strict(left, right, reverse, i, j + 1,
                               Append(res, right[j]))
    ELSE res \o SubSeq(left, i, Len(left)) \o SubSeq(right, j, Len(right))

merge_two_sorted_lists_Strict(left, right, reverse) ==
    MergeLoop_Strict(left, right, reverse, 1, 1, <<>>)

RECURSIVE MergeLoop(_, _, _, _, _, _)
MergeLoop(left, right, reverse, i, j, res) ==
    IF i <= Len(left) /\ j <= Len(right)
    THEN IF (IF reverse
             THEN get_total(left[i].items) >= get_total(right[j].items)
             ELSE get_total(left[i].items) <= get_total(right[j].items))
         THEN MergeLoop(left, right, reverse, i + 1, j, Append(res, left[i]))
         ELSE MergeLoop(left, right, reverse, i, j + 1, Append(res, right[j]))
    ELSE res \o SubSeq(left, i, Len(left)) \o SubSeq(right, j, Len(right))

merge_two_sorted_lists(left, right, reverse) ==
    MergeLoop(left, right, reverse, 1, 1, <<>>)

\* merge_sort_orders_by_total: orders[:mid] and orders[mid:] sorted, merged.
RECURSIVE merge_sort_orders_by_total(_, _)
merge_sort_orders_by_total(orders, reverse) ==
    IF Len(orders) <= 1 THEN orders
    ELSE LET mid == Len(orders) \div 2
             left == merge_sort_orders_by_total(SubSeq(orders, 1, mid), reverse)
             right == merge_sort_orders_by_total(
                          SubSeq(orders, mid + 1, Len(orders)), reverse)
         IN  merge_two_sorted_lists(left, right, reverse)

\* Both sorts begin with `if len(orders) <= 1: return orders`: the list
\* returned is then the list given, the same object; in every other case
\* the list returned is built by + or by merge_two_sorted_lists.
ReturnsArgument_Never(orders) == FALSE

ReturnsArgument(orders) == Len(orders) <= 1

(* -------------------------- inputs of the sorts ------------------------ *)
\* An order dated date whose one line has quantity total at the price 1.
SortOrder(id, date, total) ==
    [Order_init(id, 1, date, date) EXCEPT
        !.items = add_item(<<>>, Product_init(1, 1, total).obj, total).items]

\* The lists of at most MaxSortLen orders with dates in 1..MaxSortKey; the
\* order_id is the position in the list, and the later the order, the
\* smaller its total.
SortInputs ==
    {[i \in 1..Len(keys) |-> SortOrder(i, keys[i], MaxSortKey + 1 - keys[i])] :
        keys \in UNION {[1..n -> 1..MaxSortKey] : n \in 0..MaxSortLen}}

Sorted(op, orders, reverse) ==
    IF op = "quicksort" THEN quicksort_orders_by_date(orders, reverse)
    ELSE merge_sort_orders_by_total(orders, reverse)

\* quicksort_orders_by_date(orderList, reverse)
QuickSort(reverse) ==
    /\ last = NoCall
    /\ result' = quicksort_orders_by_date(orderList, reverse)
    /\ last' = [op |-> "quicksort", ret |-> "list", reverse |-> reverse,
                again |-> FALSE, same |-> ReturnsArgument(orderList)]
    /\ UNCHANGED <<product, products, items, customer, added, orderObjs,
                   orderList,
                   customerList,
                   calls, repository, customerObjs>>

\* merge_sort_orders_by_total(orderList, reverse)
MergeSort(reverse) ==
    /\ last = NoCall
    /\ result' = merge_sort_orders_by_total(orderList, reverse)
    /\ last' = [op |-> "merge_sort", ret |-> "list", reverse |-> reverse,
                again |-> FALSE, same |-> ReturnsArgument(orderList)]
    /\ UNCHANGED <<product, products, items, customer, added, orderObjs,
                   orderList,
                   customerList,
                   calls, repository, customerObjs>>

\* The caller hands the list it got back to the same sort.
SortAgain ==
    /\ last.op \in {"quicksort", "merge_sort"}
    /\ ~last.again
    /\ orderList' = result
    /\ result' = Sorted(last.op, result, last.reverse)
    /\ last' = [last EXCEPT !.again = TRUE, !.same = ReturnsArgument(result)]
    /\ UNCHANGED <<product, products, items, customer, added, orderObjs, customerList,
                   calls, repository, customerObjs>>

InitSort ==
    /\ product = NoProduct
    /\ calls = <<>>
    /\ repository = NoRepository
    /\ customerObjs = <<>>
    /\ products = [p \in ProductIds |-> NoProduct]
    /\ items = <<>>
    /\ customer = NoCustomer
    /\ added = <<>>
    /\ last = NoCall
    /\ orderObjs = [o \in OrderIds |-> NoOrder]
    /\ orderList \in SortInputs
    /\ result = NoResult
    /\ customerList = <<>>

NextSort ==
    \/ \E reverse \in BOOLEAN : QuickSort(reverse)
    \/ \E reverse \in BOOLEAN : MergeSort(reverse)
    \/ SortAgain

SpecSort == InitSort /\ [][NextSort]_vars

(* ------------------------------ analysis ------------------------------- *)
\* A moment is twice the number of the day in 2023 (1 is Sunday the first
\* of January), plus one in the second half of the day.
Moment(day, half) == 2 * day + half

\* Series.dt.date
dt_date(t) == t \div 2

\* Series.dt.to_period('W'): the weeks run from Monday to Sunday.
to_period_W(t) == (dt_date(t) + 5) \div 7

\* Series.dt.to_period('M'); the last days of January, February and March.
MonthEnds == <<31, 59, 90>>
to_period_M(t) ==
    1 + Cardinality({m \in 1..Len(MonthEnds) : dt_date(t) > MonthEnds[m]})

\* The customers and orders of an analyzer.  A customer is a validated
\* Customer with its id, its city and the ids of the orders it holds; an
\* order belongs to customer cust, is dated date and has the lines basket.
AnalysisCustomer(id, city, held) ==
    LET c == Customer_init(<<"a", "@", "b", ".", "c", "o">>, TestPhone).obj
    IN  [customer_id |-> id, city |-> city, email |-> c.email,
         phone |-> c.phone, orders |-> held, none |-> FALSE]

AnalysisOrder(id, cust, date, basket) ==
    [Order_init(id, cust, date, date) EXCEPT !.items = basket]

\* The lines of an order after add_item(product p, q) for each <<p, q>>.
AnalysisProduct(p) == Product_init(p, SpendingPrice(p), MaxStock).obj

RECURSIVE Basket(_, _)
Basket(adds, n) ==
    IF n = 0 THEN <<>>
    ELSE add_item(Basket(adds, n - 1), AnalysisProduct(adds[n][1]),
                  adds[n][2]).items

\* DataAnalyzer.create_orders_dataframe: one row per order, in list order.
create_orders_dataframe(orders) ==
    [i \in 1..Len(orders) |->
        [order_id |-> orders[i].order_id,
         customer_id |-> orders[i].customer,
         order_date |-> orders[i].order_date,
         status |-> orders[i].status,
         items_count |-> get_items_count(orders[i].items),
         total |-> get_total(orders[i].items)]]

\* The 'sum' aggregation of a column over the rows rows of a frame.
SumColumn_Last(df, col, rows) ==
    IF rows = {} THEN 0
    ELSE df[CHOOSE i \in rows : \A j \in rows : j <= i][col]

RECURSIVE SumColumn(_, _, _)
SumColumn(df, col, rows) ==
    IF rows = {} THEN 0
    ELSE LET i == CHOOSE x \in rows : \A y \in rows : x <= y
         IN  df[i][col] + SumColumn(df, col, rows \ {i})

\* The group keys of groupby (sort=True): ascending.
RECURSIVE GroupKeys_Descending(_)
GroupKeys_Descending(keys) ==
    IF keys = {} THEN <<>>
    ELSE LET k == CHOOSE x \in keys : \A y \in keys : x >= y
         IN  <<k>> \o GroupKeys_Descending(keys \ {k})

RECURSIVE GroupKeys(_)
GroupKeys(keys) ==
    IF keys = {} THEN <<>>
    ELSE LET k == CHOOSE x \in keys : \A y \in keys : x <= y
         IN  <<k>> \o GroupKeys(keys \ {k})

\* DataAnalyzer.get_sales_dynamics: the rows of the frame it returns.
get_sales_dynamics(orders, period) ==
    LET df == create_orders_dataframe(orders)
        period_of(i) ==
            IF period = "weekly" THEN to_period_W(df[i].order_date)
            ELSE IF period = "monthly" THEN to_period_M(df[i].order_date)
            ELSE dt_date(df[i].order_date)
        keys == GroupKeys({period_of(i) : i \in 1..Len(df)})
        group(k) == {i \in 1..Len(df) : period_of(i) = k}
    IN  IF df = <<>> THEN <<>>
        ELSE [n \in 1..Len(keys) |->
                 [period |-> keys[n],
                  orders_count |-> Cardinality(group(keys[n])),
                  total_revenue |-> SumColumn(df, "total", group(keys[n])),
                  total_items |-> SumColumn(df, "items_count", group(keys[n]))]]

(* ---------------------- inputs of the sales dynamics ------------------- *)
\* Two moments of Sunday the first of January, Monday the second, Tuesday
\* the 31st, and Wednesday the first of February.
DynMoments ==
    {Moment(1, 0), Moment(1, 1), Moment(2, 0), Moment(31, 0), Moment(32, 0)}

\* An order without lines, one of one line and one of two lines.
DynBaskets ==
    {Basket(adds, Len(adds)) :
        adds \in {<<>>, <<<<2, 1>>>>, <<<<1, 2>>, <<2, 1>>>>}}

\* The lists of at most MaxDynOrders orders of one customer.
DynInputs ==
    {[i \in 1..Len(in) |-> AnalysisOrder(i, 1, in[i][1], in[i][2])] :
        in \in UNION {[1..n -> DynMoments \X DynBaskets] : n \in 0..MaxDynOrders}}

Periods == {"daily", "weekly", "monthly"}

\* DataAnalyzer(customers, products, orders).get_sales_dynamics(period)
SalesDynamics(period) ==
    /\ last = NoCall
    /\ result' = get_sales_dynamics(orderList, period)
    /\ last' = [op |-> "get_sales_dynamics", ret |-> "DataFrame",
                period |-> period]
    /\ UNCHANGED <<product, products, items, customer, added, orderObjs,
                   orderList, customerList,
                   calls, repository, customerObjs>>

InitDynamics ==
    /\ product = NoProduct
    /\ calls = <<>>
    /\ repository = NoRepository
    /\ customerObjs = <<>>
    /\ products = [p \in ProductIds |-> AnalysisProduct(p)]
    /\ items = <<>>
    /\ customer = NoCustomer
    /\ added = <<>>
    /\ last = NoCall
    /\ orderObjs = [o \in OrderIds |-> NoOrder]
    /\ orderList \in DynInputs
    /\ result = NoResult
    /\ customerList =
           <<AnalysisCustomer(1, "Moskva", [i \in 1..Len(orderList) |-> i])>>

NextDynamics == \E period \in Periods : SalesDynamics(period)

SpecDynamics == InitDynamics /\ [][NextDynamics]_vars

(* ------------------------- frames and sorting -------------------------- *)
\* The arrangements of the rows of a frame.
Arrangements(df) ==
    {[i \in 1..Len(df) |-> df[p[i]]] :
        p \in {q \in [1..Len(df) -> 1..Len(df)] :
                  \A i, j \in 1..Len(df) : i # j => q[i] # q[j]}}

\* sort_values(col, ascending=False) with the default kind 'quicksort',
\* which is not stable: every arrangement of the rows that descends by col
\* is a frame the call can return.
sort_values_descending(df, col) ==
    {f \in Arrangements(df) :
        \A i, j \in 1..Len(df) : i < j => f[i][col] >= f[j][col]}

\* nlargest(n, col) with keep='first'.  Nothing for n <= 0; for n >= len
\* the head of sort_values(ascending=False); else the rows up to the n-th
\* largest value, ordered by a stable sort, cut after n rows.
nlargest_Smallest(df, n, col) ==
    IF n <= 0 THEN {<<>>}
    ELSE {SubSeq(f, Len(df) - (IF n < Len(df) THEN n ELSE Len(df)) + 1, Len(df)) :
             f \in sort_values_descending(df, col)}

nlargest(df, n, col) ==
    IF n <= 0 THEN {<<>>}
    ELSE IF n >= Len(df)
    THEN {SubSeq(f, 1, IF n < Len(f) THEN n ELSE Len(f)) :
             f \in sort_values_descending(df, col)}
    ELSE {SubSeq(f, 1, n) :
             f \in {g \in sort_values_descending(df, col) :
                       \A i, j \in 1..Len(df) :
                           (i < j /\ g[i][col] = g[j][col])
                               => g[i].index < g[j].index}}

(* --------------------------- top customers ----------------------------- *)
\* The Order objects of a list, by order_id.
ObjsOf(orders) ==
    [o \in {orders[i].order_id : i \in 1..Len(orders)} |->
        orders[CHOOSE i \in 1..Len(orders) : orders[i].order_id = o]]

\* DataAnalyzer.create_customers_dataframe: one row per customer, in list
\* order, with the index of the row; the name is the customer_id.
create_customers_dataframe(customers, objs) ==
    [i \in 1..Len(customers) |->
        [index |-> i,
         name |-> customers[i].customer_id,
         city |-> customers[i].city,
         orders_count |-> get_orders_count(customers[i].orders),
         total_spent |-> get_total_spent(customers[i].orders, objs)]]

\* The columns name, orders_count and total_spent of the rows of a frame.
TopColumns(f) ==
    [i \in 1..Len(f) |->
        [index |-> f[i].index, name |-> f[i].name,
         orders_count |-> f[i].orders_count, total_spent |-> f[i].total_spent]]

\* DataAnalyzer.get_top_customers_by_orders and get_top_customers_by_spending:
\* the frames the call can return.
get_top_customers(customers, objs, top_n, metric) ==
    LET df == create_customers_dataframe(customers, objs)
    IN  IF df = <<>> THEN {<<>>}
        ELSE {TopColumns(f) : f \in nlargest(df, top_n, metric)}

get_top_customers_by_orders(customers, objs, top_n) ==
    get_top_customers(customers, objs, top_n, "orders_count")

get_top_customers_by_spending(customers, objs, top_n) ==
    get_top_customers(customers, objs, top_n, "total_spent")

(* ----------------------- per-product statistics ------------------------ *)
\* The lines of all orders, order after order.
RECURSIVE AllLines(_)
AllLines(orders) ==
    IF orders = <<>> THEN <<>>
    ELSE Head(orders).items \o AllLines(Tail(orders))

\* The keys of product_stats, in the order in which they were first set.
RECURSIVE FirstSeen(_, _)
FirstSeen(lines, n) ==
    IF n = 0 THEN <<>>
    ELSE LET seen == FirstSeen(lines, n - 1)
             id == lines[n].product
         IN  IF \E i \in 1..Len(seen) : seen[i] = id THEN seen
             ELSE Append(seen, id)

\* What the loop adds up under one key.
RECURSIVE product_stats(_, _)
product_stats(lines, id) ==
    IF lines = <<>> THEN [quantity |-> 0, revenue |-> 0, orders |-> 0]
    ELSE LET acc == product_stats(SubSeq(lines, 1, Len(lines) - 1), id)
             item == lines[Len(lines)]
         IN  IF item.product # id THEN acc
             ELSE [quantity |-> acc.quantity + item.quantity,
                   revenue |-> acc.revenue + OrderItem_get_total(item),
                   orders |-> acc.orders + 1]

\* DataAnalyzer.get_product_sales_stats: the frames the call can return, or
\* the KeyError of sort_values('revenue') on the frame without columns that
\* pd.DataFrame([]) is.
get_product_sales_stats(orders) ==
    LET lines == AllLines(orders)
        keys == FirstSeen(lines, Len(lines))
        data == [n \in 1..Len(keys) |->
                    [product_id |-> keys[n],
                     quantity_sold |-> product_stats(lines, keys[n]).quantity,
                     revenue |-> product_stats(lines, keys[n]).revenue,
                     orders_count |-> product_stats(lines, keys[n]).orders]]
    IN  IF data = <<>>
        THEN [raised |-> "KeyError", frames |-> {<<>>}]
        ELSE [raised |-> "", frames |-> sort_values_descending(data, "revenue")]

(* ------------------------------- graphs -------------------------------- *)
\* NetworkAnalyzer.build_customer_product_graph.
\* The purchases: for each line of each order, in loop order, the
\* customer_id of the order and the product_id of the line.
RECURSIVE Purchases(_)
Purchases(orders) ==
    IF orders = <<>> THEN <<>>
    ELSE [l \in 1..Len(Head(orders).items) |->
             [customer |-> Head(orders).customer,
              product |-> Head(orders).items[l].product]]
         \o Purchases(Tail(orders))

\* product_customers[p] after the first n purchases: the list of the
\* customers with a line of product p, appended when not yet in the list.
RECURSIVE ProductCustomers_NoDedupe(_, _, _)
ProductCustomers_NoDedupe(purchases, p, n) ==
    IF n = 0 THEN <<>>
    ELSE LET list == ProductCustomers_NoDedupe(purchases, p, n - 1)
         IN  IF purchases[n].product = p
             THEN Append(list, purchases[n].customer)
             ELSE list

RECURSIVE ProductCustomers(_, _, _)
ProductCustomers(purchases, p, n) ==
    IF n = 0 THEN <<>>
    ELSE LET list == ProductCustomers(purchases, p, n - 1)
             customer_id == purchases[n].customer
         IN  IF /\ purchases[n].product = p
                /\ \A i \in 1..Len(list) : list[i] # customer_id
             THEN Append(list, customer_id)
             ELSE list

\* The customers passed in are nodes.  Each pair i < j of each list adds 1
\* to the weight of the edge of its two customers (add_edge with weight 1
\* the first time), and add_edge makes nodes of the ends of a new edge.
build_customer_product_graph(customers, orders) ==
    LET purchases == Purchases(orders)
        pids == {purchases[n].product : n \in 1..Len(purchases)}
        list(p) == ProductCustomers(purchases, p, Len(purchases))
        pairs(p) == {x \in (1..Len(list(p))) \X (1..Len(list(p))) : x[1] < x[2]}
        ends(p, x) == {list(p)[x[1]], list(p)[x[2]]}
        joined == UNION {{ends(p, x) : x \in pairs(p)} : p \in pids}
        weight(e) ==
            Cardinality({y \in UNION {{<<p, x>> : x \in pairs(p)} : p \in pids} :
                            ends(y[1], y[2]) = e})
        edges == {[ends |-> e, weight |-> weight(e)] : e \in joined}
    IN  [nodes |-> {customers[i].customer_id : i \in 1..Len(customers)}
                       \cup UNION joined,
         edges |-> edges]

\* NetworkAnalyzer.build_customer_city_graph: the customers with a city are
\* nodes, and every two of the same city are joined by an edge.
build_customer_city_graph_KeepsEmpty(customers) ==
    LET located == 1..Len(customers)
    IN  [nodes |-> {customers[i].customer_id : i \in located},
         edges |-> {[ends |-> {customers[pr[1]].customer_id,
                               customers[pr[2]].customer_id},
                     city |-> customers[pr[1]].city] :
                       pr \in {x \in located \X located :
                                  /\ x[1] < x[2]
                                  /\ customers[x[1]].city = customers[x[2]].city}}]

build_customer_city_graph(customers) ==
    LET located == {i \in 1..Len(customers) : customers[i].city # ""}
    IN  [nodes |-> {customers[i].customer_id : i \in located},
         edges |-> {[ends |-> {customers[pr[1]].customer_id,
                               customers[pr[2]].customer_id},
                     city |-> customers[pr[1]].city] :
                       pr \in {x \in located \X located :
                                  /\ x[1] < x[2]
                                  /\ customers[x[1]].city = customers[x[2]].city}}]

(* ----------------------- inputs of the analyzers ----------------------- *)
\* The customers of the tests: three, the first two of the same city.
NumCustomers == 3
CityOf(c) == IF c = 3 THEN "SPb" ELSE "Moskva"

\* The order_ids of the orders of customer c in a list, in list order.
HeldBy(orders, c) ==
    LET held == SelectSeq(orders, LAMBDA o : o.customer = c)
    IN  [i \in 1..Len(held) |-> held[i].order_id]

\* The first n customers, each holding its orders of the list.
CustomersOf(n, orders) ==
    [c \in 1..n |-> AnalysisCustomer(c, CityOf(c), HeldBy(orders, c))]

\* The lists of at most maxOrders orders of the first n customers with
\* lines from baskets; order i is placed on day i.
OrdersOf(n, maxOrders, baskets) ==
    {[i \in 1..Len(in) |-> AnalysisOrder(i, in[i][1], Moment(i, 0), in[i][2])] :
        in \in UNION {[1..k -> (1..n) \X baskets] : k \in 0..maxOrders}}

InitAnalysis(customerCounts, maxOrders, baskets) ==
    /\ product = NoProduct
    /\ calls = <<>>
    /\ repository = NoRepository
    /\ customerObjs = <<>>
    /\ products = [p \in ProductIds |-> AnalysisProduct(p)]
    /\ items = <<>>
    /\ customer = NoCustomer
    /\ added = <<>>
    /\ last = NoCall
    /\ orderObjs = [o \in OrderIds |-> NoOrder]
    /\ result = NoResult
    /\ \E n \in customerCounts :
           /\ orderList \in OrdersOf(n, maxOrders, baskets)
           /\ customerList = CustomersOf(n, orderList)

(* ----------------------- actions of the analyzers ---------------------- *)
\* DataAnalyzer(customers, products, orders).get_top_customers_by_orders(n)
TopCustomersByOrders(top_n) ==
    /\ last = NoCall
    /\ result' \in get_top_customers_by_orders(customerList, ObjsOf(orderList),
                                               top_n)
    /\ last' = [op |-> "get_top_customers", ret |-> "DataFrame",
                metric |-> "orders_count", top_n |-> top_n]
    /\ UNCHANGED <<product, products, items, customer, added, orderObjs,
                   orderList, customerList,
                   calls, repository, customerObjs>>

\* ... .get_top_customers_by_spending(n)
TopCustomersBySpending(top_n) ==
    /\ last = NoCall
    /\ result' \in get_top_customers_by_spending(customerList,
                                                 ObjsOf(orderList), top_n)
    /\ last' = [op |-> "get_top_customers", ret |-> "DataFrame",
                metric |-> "total_spent", top_n |-> top_n]
    /\ UNCHANGED <<product, products, items, customer, added, orderObjs,
                   orderList, customerList,
                   calls, repository, customerObjs>>

\* ... .get_product_sales_stats()
ProductSalesStats ==
    /\ last = NoCall
    /\ LET r == get_product_sales_stats(orderList)
       IN  /\ \E f \in r.frames : result' = [raised |-> r.raised, rows |-> f]
           /\ last' = [op |-> "get_product_sales_stats",
                       ret |-> IF r.raised = "" THEN "DataFrame" ELSE r.raised]
    /\ UNCHANGED <<product, products, items, customer, added, orderObjs,
                   orderList, customerList,
                   calls, repository, customerObjs>>

\* NetworkAnalyzer(customers, orders).build_customer_product_graph()
ProductGraph ==
    /\ last = NoCall
    /\ result' = build_customer_product_graph(customerList, orderList)
    /\ last' = [op |-> "build_customer_product_graph", ret |-> "Graph"]
    /\ UNCHANGED <<product, products, items, customer, added, orderObjs,
                   orderList, customerList,
                   calls, repository, customerObjs>>

\* ... .build_customer_city_graph()
CityGraph ==
    /\ last = NoCall
    /\ result' = build_customer_city_graph(customerList)
    /\ last' = [op |-> "build_customer_city_graph", ret |-> "Graph"]
    /\ UNCHANGED <<product, products, items, customer, added, orderObjs,
                   orderList, customerList,
                   calls, repository, customerObjs>>

\* Per-product statistics: one customer; orders without lines, with one
\* line and with two lines, of equal and of different revenue.
StatBaskets ==
    {Basket(adds, Len(adds)) :
        adds \in {<<>>, <<<<1, 1>>>>, <<<<1, 2>>>>, <<<<2, 1>>>>,
                  <<<<2, 1>>, <<1, 1>>>>}}

InitStats == InitAnalysis({1}, MaxStatOrders, StatBaskets)

NextStats == ProductSalesStats

SpecStats == InitStats /\ [][NextStats]_vars

\* Top customers: up to three customers; orders without lines, of the
\* cheap product and of the dear one; N below, at and above the number of
\* customers, 5 being the default.
TopBaskets ==
    {Basket(adds, Len(adds)) : adds \in {<<>>, <<<<1, 1>>>>, <<<<2, 1>>>>}}
DefaultTopN == 5
TopNs == {0, 1, 2, 3, DefaultTopN}

InitTop == InitAnalysis(0..NumCustomers, MaxTopOrders, TopBaskets)

NextTop ==
    \/ \E top_n \in TopNs : TopCustomersByOrders(top_n)
    \/ \E top_n \in TopNs : TopCustomersBySpending(top_n)

SpecTop == InitTop /\ [][NextTop]_vars

\* All the aggregations and graphs on few data: no customers or some, no
\* orders or some, orders without lines or with one.
SparseBaskets == {Basket(adds, Len(adds)) : adds \in {<<>>, <<<<1, 1>>>>}}

InitSparse == InitAnalysis(0..NumCustomers, MaxSparseOrders, SparseBaskets)

NextSparse ==
    \/ TopCustomersByOrders(DefaultTopN)
    \/ TopCustomersBySpending(DefaultTopN)
    \/ \E period \in Periods : SalesDynamics(period)
    \/ ProductSalesStats
    \/ ProductGraph
    \/ CityGraph

SpecSparse == InitSparse /\ [][NextSparse]_vars

(* -------------------------- inputs of the graphs ----------------------- *)
\* Shared purchases: the orders are of any of the three customers, of
\* whom the first n are passed in; one line, one line of quantity 2 with a
\* second line, and one line of the other product.
GraphBaskets ==
    {Basket(adds, Len(adds)) :
        adds \in {<<<<1, 1>>>>, <<<<1, 2>>, <<2, 1>>>>, <<<<2, 1>>>>}}

InitProductGraph ==
    /\ product = NoProduct
    /\ calls = <<>>
    /\ repository = NoRepository
    /\ customerObjs = <<>>
    /\ products = [p \in ProductIds |-> AnalysisProduct(p)]
    /\ items = <<>>
    /\ customer = NoCustomer
    /\ added = <<>>
    /\ last = NoCall
    /\ orderObjs = [o \in OrderIds |-> NoOrder]
    /\ result = NoResult
    /\ orderList \in OrdersOf(NumCustomers, MaxGraphOrders, GraphBaskets)
    /\ \E n \in 0..NumCustomers : customerList = CustomersOf(n, orderList)

NextProductGraph == ProductGraph

SpecProductGraph == InitProductGraph /\ [][NextProductGraph]_vars

\* Shared cities: at most MaxCityCustomers customers without orders, each
\* of one of two cities or of none.
GraphCities == {"", "Moskva", "SPb"}

InitCityGraph ==
    /\ product = NoProduct
    /\ calls = <<>>
    /\ repository = NoRepository
    /\ customerObjs = <<>>
    /\ products = [p \in ProductIds |-> AnalysisProduct(p)]
    /\ items = <<>>
    /\ customer = NoCustomer
    /\ added = <<>>
    /\ last = NoCall
    /\ orderObjs = [o \in OrderIds |-> NoOrder]
    /\ result = NoResult
    /\ orderList = <<>>
    /\ customerList \in
           {[c \in 1..Len(cities) |-> AnalysisCustomer(c, cities[c], <<>>)] :
               cities \in UNION {[1..n -> GraphCities] : n \in 0..MaxCityCustomers}}

NextCityGraph == CityGraph

SpecCityGraph == InitCityGraph /\ [][NextCityGraph]_vars

(* ------------------- the objects and those who read them --------------- *)
\* products[p].update_stock(delta), as the callers of add_item do after
\* the line is added.  The guard caps the stock.
StockDeltas == {-1, 1}

ProductUpdateStock(p, delta) ==
    /\ products[p].stock + delta <= StockCap
    /\ LET r == update_stock(products[p], delta)
       IN  /\ products' = [products EXCEPT ![p] = r.self]
           /\ last' = [op |-> "update_stock", quantity |-> delta, ret |-> r.ret]
    /\ UNCHANGED <<product, items, customer, added, orderObjs, orderList, result,
                   customerList,
                   calls, repository, customerObjs>>

\* The sorts, the aggregations and the graph builders, and what each may
\* return on the customers and orders it is given.
Readers ==
    {"quicksort", "merge_sort", "get_top_customers_by_orders",
     "get_top_customers_by_spending", "get_sales_dynamics",
     "get_product_sales_stats", "build_customer_product_graph",
     "build_customer_city_graph"}

ReadResults(op, customers, orders) ==
    CASE op = "quicksort" ->
             {quicksort_orders_by_date(orders, reverse) : reverse \in BOOLEAN}
      [] op = "merge_sort" ->
             {merge_sort_orders_by_total(orders, reverse) : reverse \in BOOLEAN}
      [] op = "get_top_customers_by_orders" ->
             get_top_customers_by_orders(customers, ObjsOf(orders), DefaultTopN)
      [] op = "get_top_customers_by_spending" ->
             get_top_customers_by_spending(customers, ObjsOf(orders), DefaultTopN)
      [] op = "get_sales_dynamics" ->
             {get_sales_dynamics(orders, period) : period \in Periods}
      [] op = "get_product_sales_stats" ->
             LET r == get_product_sales_stats(orders)
             IN  {[raised |-> r.raised, rows |-> f] : f \in r.frames}
      [] op = "build_customer_product_graph" ->
             {build_customer_product_graph(customers, orders)}
      [] op = "build_customer_city_graph" ->
             {build_customer_city_graph(customers)}

\* The customer and the Order objects are handed, as they are now, to an
\* analyzer or a sort, and the operation op is called.
Read(op) ==
    /\ ~customer.none
    /\ \A o \in OrderIds : ~orderObjs[o].none
    /\ customerList' = <<AnalysisCustomer(1, CityOf(1), customer.orders)>>
    /\ orderList' = <<orderObjs[1], orderObjs[2]>>
    /\ result' \in ReadResults(op, customerList', orderList')
    /\ last' = [op |-> op, ret |-> "result"]
    /\ UNCHANGED <<product, products, items, customer, added, orderObjs,
                   calls, repository, customerObjs>>

\* One customer and two orders; the first order gets lines and status
\* changes and is added to the customer, the stock of the catalogue is
\* adjusted, and then the objects are read.
FrameOrders == {1}

Working == last.op \notin Readers

NextFrame ==
    \/ \E o \in FrameOrders, p \in StatusProducts :
           Working /\ OrderAddItem(o, p, 1)
    \/ \E o \in FrameOrders, id \in StatusProducts :
           Working /\ OrderRemoveItem(o, id)
    \/ \E o \in FrameOrders, s \in Statuses : Working /\ UpdateStatus(o, s)
    \/ \E o \in FrameOrders : Working /\ AddOrder(o)
    \/ \E p \in StatusProducts, delta \in StockDeltas :
           Working /\ ProductUpdateStock(p, delta)
    \/ \E op \in Readers : Working /\ Read(op)

SpecFrame == InitSpending /\ [][NextFrame]_vars

(* ---------------------- the recursion of the sorts --------------------- *)
\* The lists on which a call of quicksort_orders_by_date calls itself:
\* none for a list of at most one order, else left and right.
quicksort_calls_KeepsPivot(orders, reverse) ==
    IF Len(orders) <= 1 THEN <<>>
    ELSE LET pivot_date == orders[(Len(orders) \div 2) + 1].order_date
         IN  <<SelectSeq(orders, LAMBDA x :
                   IF reverse THEN x.order_date > pivot_date
                              ELSE x.order_date < pivot_date),
               SelectSeq(orders, LAMBDA x :
                   IF reverse THEN x.order_date <= pivot_date
                              ELSE x.order_date >= pivot_date)>>

quicksort_calls(orders, reverse) ==
    IF Len(orders) <= 1 THEN <<>>
    ELSE LET pivot == orders[(Len(orders) \div 2) + 1]
             pivot_date == pivot.order_date
             left == SelectSeq(orders, LAMBDA x :
                         IF reverse THEN x.order_date > pivot_date
                                    ELSE x.order_date < pivot_date)
             right == SelectSeq(orders, LAMBDA x :
                         IF reverse THEN x.order_date < pivot_date
                                    ELSE x.order_date > pivot_date)
         IN  <<left, right>>

\* The lists on which a call of merge_sort_orders_by_total calls itself:
\* orders[:mid] and orders[mid:].
merge_sort_calls(orders, reverse) ==
    IF Len(orders) <= 1 THEN <<>>
    ELSE LET mid == Len(orders) \div 2
         IN  <<SubSeq(orders, 1, mid), SubSeq(orders, mid + 1, Len(orders))>>

SortCalls(op, orders, reverse) ==
    IF op = "quicksort" THEN quicksort_calls(orders, reverse)
    ELSE merge_sort_calls(orders, reverse)

\* A sort is called on orderList: the call is entered.
EnterSort(op, reverse) ==
    /\ last = NoCall
    /\ calls' = <<orderList>>
    /\ last' = [op |-> op, ret |-> "running", reverse |-> reverse]
    /\ UNCHANGED <<product, products, items, customer, added, orderObjs,
                   orderList, result, customerList, repository, customerObjs>>

\* The first call not yet evaluated is evaluated: it makes its recursive
\* calls, or none; when no call is left the sort returns its list.
StepSort ==
    /\ calls # <<>>
    /\ calls' = SortCalls(last.op, Head(calls), last.reverse) \o Tail(calls)
    /\ IF calls' = <<>>
       THEN /\ result' = Sorted(last.op, orderList, last.reverse)
            /\ last' = [last EXCEPT !.ret = "list"]
       ELSE UNCHANGED <<result, last>>
    /\ UNCHANGED <<product, products, items, customer, added, orderObjs,
                   orderList, customerList, repository, customerObjs>>

SortOps == {"quicksort", "merge_sort"}

NextTermination ==
    \/ \E op \in SortOps, reverse \in BOOLEAN : EnterSort(op, reverse)
    \/ StepSort

\* The lists of at most MaxSortLen orders with dates early, middle and
\* late, the total falling with the date.
SortDates == {1, 2, 3}

InitTermination ==
    /\ product = NoProduct
    /\ calls = <<>>
    /\ repository = NoRepository
    /\ customerObjs = <<>>
    /\ products = [p \in ProductIds |-> NoProduct]
    /\ items = <<>>
    /\ customer = NoCustomer
    /\ added = <<>>
    /\ last = NoCall
    /\ orderObjs = [o \in OrderIds |-> NoOrder]
    /\ orderList \in
           {[i \in 1..Len(keys) |-> SortOrder(i, keys[i], 4 - keys[i])] :
               keys \in UNION {[1..n -> SortDates] : n \in 0..MaxSortLen}}
    /\ result = NoResult
    /\ customerList = <<>>

\* The calls are evaluated one after another by one thread: a call that
\* can be evaluated is evaluated.
SpecTermination ==
    InitTermination /\ [][NextTermination]_vars /\ WF_vars(NextTermination)

(* ------------------- the list a sort returns, mutated ------------------ *)
\* returned.append(x), by the caller of a sort: when the list returned is
\* the list that was given, the list given has the new element too.
Appended == {SortOrder(MaxSortLen + 1, k, 1) : k \in {1, MaxSortKey}}

AppendToReturned(x) ==
    /\ last.op \in SortOps
    /\ result' = Append(result, x)
    /\ orderList' = IF last.same THEN result' ELSE orderList
    /\ last' = [op |-> "append", ret |-> "None", to |-> last.op]
    /\ UNCHANGED <<product, products, items, customer, added, orderObjs,
                   customerList, calls, repository, customerObjs>>

NextAlias ==
    \/ \E reverse \in BOOLEAN : QuickSort(reverse)
    \/ \E reverse \in BOOLEAN : MergeSort(reverse)
    \/ \E x \in Appended : AppendToReturned(x)

SpecAlias == InitSort /\ [][NextAlias]_vars

(* --------------------------- DataRepository ---------------------------- *)
\* The objects given to a repository, by number.  Customer objects 1 and 2
\* have the same customer_id, order objects 1 and 2 the same order_id (and
\* different customers), the two product objects the same product_id.
RepoCustomers == {1, 2, 3}
RepoCustomerId(c) == IF c = 3 THEN 2 ELSE 1
RepoOrders == {1, 2, 3}
RepoOrder(o) == [order_id |-> IF o = 3 THEN 2 ELSE 1,
                 customer |-> IF o = 2 THEN 2 ELSE 1]
RepoProducts == {1, 2}
RepoProductId(p) == 1

\* The ids of the elements of each list, in list order, and whether some
\* element has the id, as any(x.id == id for x in list).
CustomerIdsOf(list) == [i \in 1..Len(list) |-> RepoCustomerId(list[i])]
ProductIdsOf(list) == [i \in 1..Len(list) |-> RepoProductId(list[i])]
OrderIdsOf(list) == [i \in 1..Len(list) |-> RepoOrder(list[i]).order_id]

AnyId(ids, id) == \E i \in 1..Len(ids) : ids[i] = id

\* DatabaseManager.save_customer: INSERT OR REPLACE and True, or, when
\* sqlite3 raises (locked or read-only file, full disk), a message and False.
SaveOutcomes == {"True", "False"}

save_customer(saved, customer_id, outcome) ==
    IF outcome = "True" THEN [saved |-> saved \cup {customer_id}, ret |-> "True"]
    ELSE [saved |-> saved, ret |-> "False"]

\* DataRepository.add_customer
DataRepository_add_customer(self, c, outcome) ==
    IF AnyId(CustomerIdsOf(self.customers), RepoCustomerId(c))
    THEN [self |-> self, ret |-> "False"]
    ELSE LET appended == [self EXCEPT !.customers = Append(@, c)]
         IN  IF self.use_database
             THEN LET r == save_customer(self.saved, RepoCustomerId(c), outcome)
                  IN  [self |-> [appended EXCEPT !.saved = r.saved],
                       ret |-> r.ret]
             ELSE [self |-> appended, ret |-> "True"]

\* DataRepository.add_product
DataRepository_add_product(self, p) ==
    IF AnyId(ProductIdsOf(self.products), RepoProductId(p))
    THEN [self |-> self, ret |-> "False"]
    ELSE [self |-> [self EXCEPT !.products = Append(@, p)], ret |-> "True"]

\* DataRepository.add_order: the repository's list and the list of the
\* order's customer.
DataRepository_add_order_NoCheck(self, objs, o) ==
    [self |-> [self EXCEPT !.orders = Append(@, o)],
     objs |-> [objs EXCEPT ![RepoOrder(o).customer].orders = add_order(@, o)],
     ret |-> "True"]

DataRepository_add_order(self, objs, o) ==
    IF AnyId(OrderIdsOf(self.orders), RepoOrder(o).order_id)
    THEN [self |-> self, objs |-> objs, ret |-> "False"]
    ELSE [self |-> [self EXCEPT !.orders = Append(@, o)],
          objs |-> [objs EXCEPT ![RepoOrder(o).customer].orders = add_order(@, o)],
          ret |-> "True"]

\* repository.add_customer(customer object c); the database answers outcome.
RepoAddCustomer(c, outcome) ==
    /\ LET r == DataRepository_add_customer(repository, c, outcome)
       IN  /\ repository' = r.self
           /\ last' = [op |-> "DataRepository.add_customer", ret |-> r.ret,
                       arg |-> c]
    /\ UNCHANGED <<product, products, items, customer, added, orderObjs,
                   orderList, result, customerList, calls, customerObjs>>

\* repository.add_product(product object p)
RepoAddProduct(p) ==
    /\ LET r == DataRepository_add_product(repository, p)
       IN  /\ repository' = r.self
           /\ last' = [op |-> "DataRepository.add_product", ret |-> r.ret,
                       arg |-> p]
    /\ UNCHANGED <<product, products, items, customer, added, orderObjs,
                   orderList, result, customerList, calls, customerObjs>>

\* repository.add_order(order object o)
RepoAddOrder(o) ==
    /\ LET r == DataRepository_add_order(repository, customerObjs, o)
       IN  /\ repository' = r.self
           /\ customerObjs' = r.objs
           /\ last' = [op |-> "DataRepository.add_order", ret |-> r.ret,
                       arg |-> o]
    /\ UNCHANGED <<product, products, items, customer, added, orderObjs,
                   orderList, result, customerList, calls>>

\* DataRepository(use_database): the three lists empty; the customers are
\* constructed and have no orders.
InitRepository ==
    /\ product = NoProduct
    /\ products = [p \in ProductIds |-> NoProduct]
    /\ items = <<>>
    /\ customer = NoCustomer
    /\ added = <<>>
    /\ last = NoCall
    /\ orderObjs = [o \in OrderIds |-> NoOrder]
    /\ orderList = <<>>
    /\ result = NoResult
    /\ customerList = <<>>
    /\ calls = <<>>
    /\ \E use_database \in BOOLEAN :
           repository = [customers |-> <<>>, products |-> <<>>, orders |-> <<>>,
                         use_database |-> use_database, saved |-> {}]
    /\ customerObjs =
           [c \in RepoCustomers |->
               [customer_id |-> RepoCustomerId(c), orders |-> <<>>]]

NextRepository ==
    \/ \E c \in RepoCustomers, outcome \in SaveOutcomes : RepoAddCustomer(c, outcome)
    \/ \E p \in RepoProducts : RepoAddProduct(p)
    \/ \E o \in RepoOrders : RepoAddOrder(o)

SpecRepository == InitRepository /\ [][NextRepository]_vars

(* ---------------------------------------------------------------------- *)
\* C1: a constructed product's stock is never negative; an update_stock
\* call with stock + delta < 0 raises and leaves the stock as it was, every
\* other call sets the stock to stock + delta and returns True.
C1_StockNeverNegative ==
    /\ [](~product.none => product.stock >= 0)
    /\ [][last'.op = "update_stock" =>
            LET delta == last'.quantity
            IN  IF product.stock + delta < 0
                THEN last'.ret = "ValueError" /\ product' = product
                ELSE /\ last'.ret = "True"
                     /\ product' = [product EXCEPT !.stock = @ + delta]]_vars

\* A rejected update_stock call has happened on a product with stock left.
C1_Witness ==
    /\ last.op = "update_stock"
    /\ last.ret = "ValueError"
    /\ product.stock > 0
    /\ product.stock + last.quantity < 0

\* C8: Product construction raises, and produces no product, exactly when
\* price < 0 or stock < 0; otherwise the product holds the given values.
C8_ProductConstruction ==
    last.op = "Product" =>
        IF last.price < 0 \/ last.stock < 0
        THEN last.ret = "ValueError" /\ product.none
        ELSE /\ last.ret = "None"
             /\ ~product.none
             /\ product.price = last.price
             /\ product.stock = last.stock

\* A construction with a valid price and a negative stock was rejected.
C8_Witness ==
    /\ last.op = "Product"
    /\ last.price >= 0
    /\ last.stock < 0
    /\ last.ret = "ValueError"
    /\ product.none


(* ---------------------------------------------------------------------- *)
\* The line of product_id in a sequence of lines (there is one).
LineOf(self_items, product_id) == self_items[FirstLine(self_items, product_id)]

HasLine(self_items, product_id) == FirstLine(self_items, product_id) # 0

\* C2: an order never holds two lines of one product_id; an add_item that
\* succeeds on a product already in the order adds the quantity to that line
\* and changes no other line, and one on a product not in the order appends
\* exactly one line, of that product and quantity.
C2_OneLinePerProduct ==
    /\ [](\A i, j \in 1..Len(items) :
             items[i].product = items[j].product => i = j)
    /\ [][\A p \in ProductIds, q \in Quantities :
            (last'.op = "add_item" /\ last'.ret = "None" /\ AddItem(p, q)) =>
                IF HasLine(items, p)
                THEN LET i == FirstLine(items, p)
                     IN  /\ Len(items') = Len(items)
                         /\ items'[i].quantity = items[i].quantity + q
                         /\ \A k \in 1..Len(items) : k # i => items'[k] = items[k]
                ELSE /\ Len(items') = Len(items) + 1
                     /\ SubSeq(items', 1, Len(items)) = items
                     /\ items'[Len(items')].product = p
                     /\ items'[Len(items')].quantity = q]_vars

\* Product 1 has a stock of 1, so its line reaches quantity 2 only by a
\* second add_item merged into the line, here next to another line.
C2_Witness ==
    /\ last.op = "add_item"
    /\ last.ret = "None"
    /\ Len(items) = 2
    /\ HasLine(items, 1)
    /\ LineOf(items, 1).quantity = 2

\* C3: every order line has quantity > 0 in every reachable state (a
\* non-positive quantity is rejected by add_item, whether or not the
\* product already has a line).
C3_LineQuantityPositive ==
    \A i \in 1..Len(items) : items[i].quantity > 0

\* C4: add_item raises whenever product.stock < quantity, and the lines are
\* then exactly what they were.
C4_UnavailableRejected ==
    [][\A p \in ProductIds, q \in Quantities :
          (products[p].stock < q /\ last'.op = "add_item" /\ AddItem(p, q)) =>
              last'.ret = Unavailable /\ items' = items]_vars

\* An add_item was rejected as unavailable on an order that has lines.
C4_Witness ==
    /\ last.op = "add_item"
    /\ last.ret = Unavailable
    /\ Len(items) >= 2

\* The sum of f over the lines, taken from the head.
RECURSIVE SumOver(_, _, _)
SumOver(lines, wantTotal, acc) ==
    IF lines = <<>> THEN acc
    ELSE SumOver(Tail(lines), wantTotal,
                 acc + (IF wantTotal
                        THEN Head(lines).quantity * Head(lines).price_at_time
                        ELSE Head(lines).quantity))

\* C5: get_total() is the sum over the lines of quantity * price_at_time
\* and get_items_count() the sum over the lines of quantity.
C5_TotalsAreSums ==
    /\ get_total(items) = SumOver(items, TRUE, 0)
    /\ get_items_count(items) = SumOver(items, FALSE, 0)

\* After a remove_item, two lines of different price and quantity remain.
C5_Witness ==
    /\ last.op = "remove_item"
    /\ last.ret = "True"
    /\ Len(items) = 2
    /\ items[1].price_at_time # items[2].price_at_time
    /\ items[1].quantity = 2
    /\ items[2].quantity = 1
    /\ get_total(items) = 4

\* C6: a line's price_at_time is the product's price when the line is
\* created and never changes while the line exists, whatever happens to the
\* product's price and whatever is merged into the line.
C6_PriceSnapshotFixed ==
    [][\A j \in 1..Len(items') :
          IF HasLine(items, items'[j].product)
          THEN items'[j].price_at_time =
                   LineOf(items, items'[j].product).price_at_time
          ELSE items'[j].price_at_time = products[items'[j].product].price]_vars

\* An add_item has merged into the line of product 1 (quantity 2 with a
\* stock of 1) while the product's price differs from the line's snapshot.
C6_Witness ==
    /\ last.op = "add_item"
    /\ last.ret = "None"
    /\ Len(items) = 1
    /\ items[1].product = 1
    /\ items[1].quantity = 2
    /\ items[1].price_at_time # products[1].price

\* The lines other than those of product_id, in their order.
Without(self_items, product_id) ==
    LET Other(line) == line.product # product_id
    IN  SelectSeq(self_items, Other)

\* C7: remove_item removes exactly the line of product_id and returns True
\* when there is one, keeping the other lines in their order; otherwise it
\* returns False and leaves the lines as they were.
C7_RemoveItem ==
    [][\A id \in ProductIds \cup {UnknownId} :
          (last'.op = "remove_item" /\ RemoveItem(id)) =>
              IF HasLine(items, id)
              THEN /\ last'.ret = "True"
                   /\ items' = Without(items, id)
                   /\ Len(items') = Len(items) - 1
              ELSE last'.ret = "False" /\ items' = items]_vars

\* A line was removed from an order of three lines: two are left.
C7_Witness ==
    /\ last.op = "remove_item"
    /\ last.ret = "True"
    /\ Len(items) = 2
    /\ items[1].product > items[2].product


\* C9: a Customer is constructed only if the email has the local@domain.tld
\* shape and the phone, as passed in and stored, is +7 or 8 followed by 10
\* to 15 digits or punctuation characters; every other email or phone makes
\* the construction raise.
C9_CustomerValidated ==
    last.op = "Customer" =>
        /\ customer.none <=> last.ret = "ValueError"
        /\ ~customer.none =>
               /\ customer.email = last.email
               /\ customer.phone = last.phone
               /\ re_match_email(customer.email)
               /\ re_match_phone(customer.phone)

\* C10: the customer's order sequence is the add_order arguments in call
\* order, repeats included; no step shortens or reorders it; and
\* get_orders_count() is the number of add_order calls.
C10_OrdersAppendOnly ==
    /\ [](~customer.none =>
            /\ customer.orders = added
            /\ get_orders_count(customer.orders) = Len(added))
    /\ [][/\ Len(customer'.orders) >= Len(customer.orders)
          /\ SubSeq(customer'.orders, 1, Len(customer.orders)) = customer.orders]_vars

\* The same order was added twice, with another one in between.
C10_Witness ==
    /\ last.op = "add_order"
    /\ customer.orders = <<1, 2, 1>>
    /\ get_orders_count(customer.orders) = 3

\* C11: what get_total_spent returns is the sum, over the entries of the
\* customer's order sequence (an order entered twice counts twice), of the
\* total the order has when the call is made.
OccurrencesOf(o) ==
    Cardinality({i \in 1..Len(customer.orders) : customer.orders[i] = o})

\* The totals of the orders ids, each as often as the customer holds it.
RECURSIVE HeldTotals(_)
HeldTotals(ids) ==
    IF ids = {} THEN 0
    ELSE LET o == CHOOSE x \in ids : TRUE
         IN  OccurrencesOf(o) * SumOver(orderObjs[o].items, TRUE, 0)
                 + HeldTotals(ids \ {o})

C11_TotalSpentIsCurrentSum ==
    last.op = "get_total_spent" => last.ret = HeldTotals(OrderIds)

\* A call made right after add_item on an order that the customer already
\* held, with an order entered twice.
C11_Witness ==
    /\ last.op = "get_total_spent"
    /\ last.after = "add_item"
    /\ \A o \in OrderIds : OccurrencesOf(o) >= 1
    /\ \E o \in OrderIds : OccurrencesOf(o) = 2 /\ orderObjs[o].items # <<>>
    /\ last.ret > 0

\* C12: a new order has the status "Новый"; update_status(s) sets the
\* status to s whatever the status was, and leaves the order's lines,
\* customer and date, and every other order, as they were.
C12_StatusFreelySet ==
    /\ [](last.op = "Order" =>
            /\ orderObjs[last.order].status = StatusNew
            /\ orderObjs[last.order].items = <<>>)
    /\ [][last'.op = "update_status" =>
            /\ last'.ret = "None"
            /\ orderObjs' =
                   [orderObjs EXCEPT ![last'.order].status = last'.new_status]]_vars

\* A completed order with lines set back to "Новый".
C12_Witness ==
    /\ last.op = "update_status"
    /\ last.from = "Zavershen"
    /\ last.new_status = StatusNew
    /\ orderObjs[last.order].status = StatusNew
    /\ orderObjs[last.order].items # <<>>

\* The key a sort orders by, and the position of an order in a list.
SortKey(op, x) ==
    IF op = "quicksort" THEN x.order_date ELSE SumOver(x.items, TRUE, 0)

PosIn(orders, x) == CHOOSE i \in 1..Len(orders) : orders[i] = x

\* The reference: a stable insertion sort.  An order goes behind every
\* order already placed that does not have to follow it.
InsertStable(op, reverse, placed, x) ==
    LET stays == SelectSeq(placed, LAMBDA e :
                     IF reverse THEN SortKey(op, e) >= SortKey(op, x)
                                ELSE SortKey(op, e) <= SortKey(op, x))
    IN  stays \o <<x>> \o SubSeq(placed, Len(stays) + 1, Len(placed))

RECURSIVE StableSort(_, _, _, _)
StableSort(op, reverse, orders, n) ==
    IF n = 0 THEN <<>>
    ELSE InsertStable(op, reverse, StableSort(op, reverse, orders, n - 1),
                      orders[n])

\* C13: in both directions and for every input, each of the two sorts
\* returns the list a stable sort on its key (order_date, total) returns.
C13_SortsEqualStableSort ==
    last.op \in {"quicksort", "merge_sort"} =>
        result = StableSort(last.op, last.reverse, orderList, Len(orderList))

\* A descending quicksort of a list with a repeated date that had to move
\* orders.
C13_Witness ==
    /\ last.op = "quicksort"
    /\ last.reverse
    /\ ~last.again
    /\ Len(orderList) >= 3
    /\ \E i, j \in 1..Len(orderList) :
           i # j /\ orderList[i].order_date = orderList[j].order_date
    /\ result # orderList
    /\ result # <<>>

\* C14: sorting the list a sort returned, with the same sort and direction,
\* returns that list again.
C14_SortsIdempotent ==
    (last.op \in {"quicksort", "merge_sort"} /\ last.again) =>
        result = orderList

\* A list with a repeated key and two different keys, sorted a second time.
C14_Witness ==
    /\ last.op \in {"quicksort", "merge_sort"}
    /\ last.again
    /\ Len(result) >= 3
    /\ \E i, j \in 1..Len(result) :
           i # j /\ result[i].order_date = result[j].order_date
    /\ \E i, j \in 1..Len(result) :
           result[i].order_date # result[j].order_date

\* C15: in both directions, orders of equal total leave the merge sort in
\* the order in which they entered it.
C15_MergeSortStable ==
    last.op = "merge_sort" =>
        \A i, j \in 1..Len(result) :
            (i < j /\ SumOver(result[i].items, TRUE, 0)
                          = SumOver(result[j].items, TRUE, 0))
                => PosIn(orderList, result[i]) < PosIn(orderList, result[j])

\* A descending merge sort that moved orders and returned two orders of
\* equal total that were not neighbours in the input.
C15_Witness ==
    /\ last.op = "merge_sort"
    /\ last.reverse
    /\ ~last.again
    /\ result # orderList
    /\ \E i, j \in 1..Len(result) :
           /\ i < j
           /\ SumOver(result[i].items, TRUE, 0) = SumOver(result[j].items, TRUE, 0)
           /\ PosIn(orderList, result[j]) - PosIn(orderList, result[i]) >= 2

\* The sum of a column over all the rows of a result.
RECURSIVE ColumnTotal(_, _)
ColumnTotal(rows, col) ==
    IF rows = <<>> THEN 0 ELSE Head(rows)[col] + ColumnTotal(Tail(rows), col)

\* The sum of the totals (of the quantities) of the lines of all orders.
RECURSIVE OrdersTotal(_, _)
OrdersTotal(orders, wantTotal) ==
    IF orders = <<>> THEN 0
    ELSE SumOver(Head(orders).items, wantTotal, 0)
             + OrdersTotal(Tail(orders), wantTotal)

\* C17: for every grouping period, the total_revenue of the rows of
\* get_sales_dynamics adds up to the sum of the totals of the input orders.
C17_RevenueConserved ==
    last.op = "get_sales_dynamics" =>
        ColumnTotal(result, "total_revenue") = OrdersTotal(orderList, TRUE)

\* A weekly grouping of three orders with lines that fall into two weeks.
C17_Witness ==
    /\ last.op = "get_sales_dynamics"
    /\ last.period = "weekly"
    /\ Len(orderList) = 3
    /\ \A i \in 1..3 : orderList[i].items # <<>>
    /\ Len(result) = 2
    /\ result[1].total_revenue > 0
    /\ result[2].total_revenue > 0

\* The period an order falls into.
PeriodOf(period, order) ==
    IF period = "weekly" THEN to_period_W(order.order_date)
    ELSE IF period = "monthly" THEN to_period_M(order.order_date)
    ELSE dt_date(order.order_date)

OrdersIn(period, k) ==
    {i \in 1..Len(orderList) : PeriodOf(period, orderList[i]) = k}

\* C18: get_sales_dynamics returns one row for each period that holds an
\* input order and no other row, the rows by ascending period; a row
\* counts the orders of its period and adds up their items_count, and the
\* counts of all rows add up to the number of input orders.
C18_OneRowPerPeriod ==
    last.op = "get_sales_dynamics" =>
        /\ {result[n].period : n \in 1..Len(result)}
               = {PeriodOf(last.period, orderList[i]) : i \in 1..Len(orderList)}
        /\ \A m, n \in 1..Len(result) :
               m < n => result[m].period < result[n].period
        /\ \A n \in 1..Len(result) :
               /\ result[n].orders_count
                      = Cardinality(OrdersIn(last.period, result[n].period))
               /\ result[n].orders_count >= 1
               /\ result[n].total_items
                      = OrdersTotal(
                            SelectSeq(orderList, LAMBDA o :
                                PeriodOf(last.period, o) = result[n].period),
                            FALSE)
        /\ ColumnTotal(result, "orders_count") = Len(orderList)

\* A monthly grouping of orders given in February-then-January order, two
\* of them in January.
C18_Witness ==
    /\ last.op = "get_sales_dynamics"
    /\ last.period = "monthly"
    /\ Len(orderList) = 3
    /\ to_period_M(orderList[1].order_date) = 2
    /\ Len(result) = 2
    /\ result[1].orders_count = 2
    /\ result[1].total_items > 0

\* The inputs with no data: no customers and no orders, or orders that have
\* no lines.
BothEmpty == customerList = <<>> /\ orderList = <<>>
NoLinesAtAll == \A i \in 1..Len(orderList) : orderList[i].items = <<>>

\* C16: on no data no aggregation and no graph builder raises; with no
\* customers and no orders each returns an empty result (no rows, no nodes
\* and no edges), and with orders that have no lines the per-product
\* statistics have no rows and the shared-purchase graph no edges.
C16_EmptyInputsTolerated ==
    (last.op # "none" /\ (BothEmpty \/ NoLinesAtAll)) =>
        /\ last.ret # "KeyError"
        /\ BothEmpty =>
               IF last.op \in {"build_customer_product_graph",
                               "build_customer_city_graph"}
               THEN result.nodes = {} /\ result.edges = {}
               ELSE IF last.op = "get_product_sales_stats"
               THEN result.rows = <<>>
               ELSE result = <<>>
        /\ last.op = "get_product_sales_stats" => result.rows = <<>>
        /\ last.op = "build_customer_product_graph" => result.edges = {}

\* The lines of product id in the input orders.
LinesOfProduct(id) ==
    SelectSeq(AllLines(orderList), LAMBDA l : l.product = id)

\* C19: get_product_sales_stats returns one row for each product_id that
\* has a line in some order; the row carries the sum of the quantities of
\* the product's lines, the sum of their totals and the number of orders
\* with such a line; the rows descend by revenue.
C19_ProductStats ==
    last.op = "get_product_sales_stats" =>
        /\ last.ret = "DataFrame"
        /\ LET rows == result.rows
               pids == {AllLines(orderList)[l].product :
                           l \in 1..Len(AllLines(orderList))}
           IN  /\ Len(rows) = Cardinality(pids)
               /\ {rows[n].product_id : n \in 1..Len(rows)} = pids
               /\ \A n \in 1..Len(rows) :
                      LET id == rows[n].product_id
                      IN  /\ rows[n].quantity_sold
                                 = SumOver(LinesOfProduct(id), FALSE, 0)
                          /\ rows[n].revenue = SumOver(LinesOfProduct(id), TRUE, 0)
                          /\ rows[n].orders_count =
                                 Cardinality(
                                     {i \in 1..Len(orderList) :
                                         \E l \in 1..Len(orderList[i].items) :
                                             orderList[i].items[l].product
                                                 = id})
               /\ \A m, n \in 1..Len(rows) :
                      m < n => rows[m].revenue >= rows[n].revenue

\* The value of the metric of the customer at position i of the input.
MetricOf(metric, i) ==
    IF metric = "orders_count"
    THEN Cardinality({k \in 1..Len(orderList) :
                         orderList[k].customer = customerList[i].customer_id})
    ELSE OrdersTotal(SelectSeq(orderList, LAMBDA o :
                         o.customer = customerList[i].customer_id), TRUE)

\* What the top-customers operations return but for the order of ties: the
\* smaller of N and the number of customers rows, all of different
\* customers, descending by the metric, no customer left out having more
\* than one returned.
TopRowsRight ==
    /\ Len(result) = IF last.top_n < Len(customerList)
                     THEN last.top_n ELSE Len(customerList)
    /\ \A m, n \in 1..Len(result) : m # n => result[m].index # result[n].index
    /\ \A n \in 1..Len(result) :
           /\ result[n].index \in 1..Len(customerList)
           /\ result[n][last.metric] = MetricOf(last.metric, result[n].index)
    /\ \A m, n \in 1..Len(result) :
           m < n => result[m][last.metric] >= result[n][last.metric]
    /\ \A i \in 1..Len(customerList) :
           (\A n \in 1..Len(result) : result[n].index # i) =>
               \A n \in 1..Len(result) :
                   MetricOf(last.metric, i) <= result[n][last.metric]

TiesInInputOrder ==
    \A m, n \in 1..Len(result) :
        (m < n /\ result[m][last.metric] = result[n][last.metric])
            => result[m].index < result[n].index

\* C20 as stated: the rows are right and customers of equal metric keep
\* their input order, for every N.
C20_TopCustomersTiesKept ==
    last.op = "get_top_customers" => (TopRowsRight /\ TiesInInputOrder)

\* C20: the rows are right for every N; customers of equal metric keep
\* their input order when N is less than the number of customers.
C20_TopCustomers ==
    last.op = "get_top_customers" =>
        /\ TopRowsRight
        /\ last.top_n < Len(customerList) => TiesInInputOrder

\* The top two of three customers by spending, the second and the third
\* customer having spent the same, more than nothing, and the first less.
C20_Witness ==
    /\ last.op = "get_top_customers"
    /\ last.metric = "total_spent"
    /\ last.top_n = 2
    /\ Len(customerList) = 3
    /\ MetricOf("total_spent", 2) = MetricOf("total_spent", 3)
    /\ MetricOf("total_spent", 1) < MetricOf("total_spent", 2)
    /\ Len(result) = 2
    /\ result[1].index = 2

\* C27: the stock of the products not changing, no line of the order has a
\* quantity above the stock of its product: add_item rejects a quantity
\* that, added to the quantity of the line, exceeds the stock.
C27_LineWithinStock ==
    \A i \in 1..Len(items) : items[i].quantity <= products[items[i].product].stock

\* C30: for every non-empty list of orders and every period, the revenue
\* of the rows of get_product_sales_stats adds up to the total_revenue of
\* the rows of get_sales_dynamics, and the quantity_sold to the total_items.
C30_StatsMatchDynamics ==
    (last.op = "get_product_sales_stats" /\ orderList # <<>>) =>
        /\ last.ret = "DataFrame"
        /\ \A period \in Periods :
               LET dynamics == get_sales_dynamics(orderList, period)
               IN  /\ ColumnTotal(result.rows, "revenue")
                          = ColumnTotal(dynamics, "total_revenue")
                   /\ ColumnTotal(result.rows, "quantity_sold")
                          = ColumnTotal(dynamics, "total_items")

\* The products with a line in some order of customer c, and the customers
\* passed in.
BoughtBy(c) ==
    UNION {{orderList[i].items[l].product : l \in 1..Len(orderList[i].items)} :
              i \in {k \in 1..Len(orderList) : orderList[k].customer = c}}

PassedIn == {customerList[i].customer_id : i \in 1..Len(customerList)}

\* C21: in the shared-purchase graph two different customers have an edge
\* exactly when some product has a line in orders of both, the weight of
\* the edge is the number of such products, and there is no other edge.
C21_SharedPurchaseEdges ==
    last.op = "build_customer_product_graph" =>
        /\ \A e \in result.edges : Cardinality(e.ends) = 2
        /\ \A a, b \in 1..NumCustomers :
               a # b =>
                   {e \in result.edges : e.ends = {a, b}} =
                       IF BoughtBy(a) \cap BoughtBy(b) = {} THEN {}
                       ELSE {[ends |-> {a, b},
                              weight |-> Cardinality(BoughtBy(a) \cap BoughtBy(b))]}

\* Two customers who both bought both products, one of them the first
\* product twice and in a line of quantity 2: an edge of weight 2.
C21_Witness ==
    /\ last.op = "build_customer_product_graph"
    /\ Len(orderList) = 3
    /\ orderList[1].customer = orderList[3].customer
    /\ orderList[1].customer # orderList[2].customer
    /\ \A i \in 1..3 : orderList[i].items[1].product = 1
    /\ orderList[1].items[1].quantity = 2
    /\ \E e \in result.edges : e.weight = 2

\* C22: the nodes of the shared-purchase graph are the customer_ids of the
\* customers passed in, whatever customers the orders are of.
C22_NodesArePassedIn ==
    last.op = "build_customer_product_graph" => result.nodes = PassedIn

\* The customers of a city among those passed in.
Residents(city) ==
    {customerList[i].customer_id :
        i \in {k \in 1..Len(customerList) : customerList[k].city = city}}

RECURSIVE PairsWithin(_)
PairsWithin(cities) ==
    IF cities = {} THEN 0
    ELSE LET city == CHOOSE x \in cities : TRUE
             k == Cardinality(Residents(city))
         IN  (k * (k - 1)) \div 2 + PairsWithin(cities \ {city})

\* C23: the nodes of the shared-city graph are the customers with a city;
\* two different nodes have an edge exactly when they are of the same city,
\* the edge carries the city, and a city of k customers gives k*(k-1)/2
\* edges; a customer without a city is no node and no end of an edge.
C23_SharedCityGraph ==
    last.op = "build_customer_city_graph" =>
        /\ result.nodes = PassedIn \ Residents("")
        /\ \A e \in result.edges :
               Cardinality(e.ends) = 2 /\ e.ends \subseteq result.nodes
        /\ \A a, b \in result.nodes :
               a # b =>
                   {e \in result.edges : e.ends = {a, b}} =
                       IF customerList[a].city # customerList[b].city THEN {}
                       ELSE {[ends |-> {a, b}, city |-> customerList[a].city]}
        /\ Cardinality(result.edges) = PairsWithin(GraphCities \ {""})

\* Three customers of one city and one without a city: three edges.
C23_Witness ==
    /\ last.op = "build_customer_city_graph"
    /\ Len(customerList) = 4
    /\ Cardinality(Residents("")) = 1
    /\ Cardinality(Residents("Moskva")) = 3
    /\ Cardinality(result.edges) = 3
    /\ Cardinality(result.nodes) = 3

\* The calls that change no line of an order.
KeepLines == Readers \cup {"update_status", "add_order", "update_stock"}

\* C24: the stock of a product changes only through update_stock, and no
\* call changes a price: add_item, remove_item, update_status, add_order,
\* the sorts, the aggregations and the graph builders leave every product
\* as it is, and all of them but add_item and remove_item leave the lines
\* of every order as they are.
C24_StockOnlyByUpdateStock ==
    [][/\ products' # products => last'.op = "update_stock"
       /\ \A p \in ProductIds : products'[p].price = products[p].price
       /\ last'.op \in KeepLines =>
              \A o \in OrderIds : orderObjs'[o].items = orderObjs[o].items
       /\ last'.op \in Readers =>
              \A i \in 1..Len(orderList') :
                  orderList'[i] = orderObjs[orderList'[i].order_id]]_vars

\* The per-product statistics were taken of an order with a line of
\* quantity 2 held by the customer, after the stock had been lowered.
C24_Witness ==
    /\ last.op = "get_product_sales_stats"
    /\ Len(orderObjs[1].items) = 1
    /\ orderObjs[1].items[1].quantity = 2
    /\ orderObjs[1].status = "Zavershen"
    /\ customer.orders = <<1>>
    /\ products[1].stock = 1

\* C25: both sorts return on every list, in both directions: every call
\* that a call of a sort makes of itself is on a strictly shorter list,
\* and a sort that was called comes to have no call left and returns.
C25_SortsTerminate ==
    /\ [][\A k \in 1..Len(calls') - Len(calls) + 1 :
              calls # <<>> => Len(calls'[k]) < Len(Head(calls))]_vars
    /\ (last.op \in SortOps) ~> (calls = <<>> /\ last.ret = "list")

\* A sort in reverse order has returned on four orders of the same date.
C25_Witness ==
    /\ last.op = "quicksort"
    /\ last.reverse
    /\ last.ret = "list"
    /\ calls = <<>>
    /\ Len(orderList) = 4
    /\ \A i \in 1..4 : orderList[i].order_date = orderList[1].order_date
    /\ result = orderList

\* C26: a sort leaves the list it is given as it is, and the list it
\* returns is a new one: appending to the list returned leaves the list
\* given as it is, whatever the list.
C26_ResultAlwaysNew ==
    [][/\ last'.op \in SortOps => orderList' = orderList
       /\ last'.op = "append" => orderList' = orderList]_vars

\* C26, amended: a sort leaves the list it is given as it is; the list it
\* returns is a new one when the list given has two or more orders, and is
\* the list given itself when that has at most one order, so that
\* appending to the list returned appends to the list given.
C26_ResultNewUnlessTrivial ==
    [][/\ last'.op \in SortOps => orderList' = orderList
       /\ last'.op = "append" =>
              IF Len(orderList) <= 1
              THEN orderList' = result' /\ Len(orderList') = Len(orderList) + 1
              ELSE orderList' = orderList]_vars

\* An order was appended to the list a sort returned for a list of one
\* order, and the list given has two orders now.
C26_Witness ==
    /\ last.op = "append"
    /\ last.to = "merge_sort"
    /\ Len(orderList) = 2
    /\ orderList = result

\* Whether no id occurs twice in a list of ids.
NoIdTwice(ids) == \A i, j \in 1..Len(ids) : ids[i] = ids[j] => i = j

\* C28: after any calls of add_customer, add_product and add_order each of
\* the three lists of the repository has at most one element per id; an
\* add_order of an order_id that is in the list returns False and changes
\* neither the list nor the orders of any customer; an add_order that is
\* accepted appends the order to the list and once to the orders of the
\* order's customer.
C28_OnePerId ==
    /\ [](/\ NoIdTwice(CustomerIdsOf(repository.customers))
          /\ NoIdTwice(ProductIdsOf(repository.products))
          /\ NoIdTwice(OrderIdsOf(repository.orders)))
    /\ [][last'.op = "DataRepository.add_order" =>
              LET o == last'.arg
                  c == RepoOrder(o).customer
                  known == \E i \in 1..Len(repository.orders) :
                               RepoOrder(repository.orders[i]).order_id =
                                   RepoOrder(o).order_id
              IN  IF known
                  THEN /\ last'.ret = "False"
                       /\ repository'.orders = repository.orders
                       /\ customerObjs' = customerObjs
                  ELSE /\ last'.ret = "True"
                       /\ repository'.orders = Append(repository.orders, o)
                       /\ customerObjs'[c].orders = Append(customerObjs[c].orders, o)
                       /\ \A d \in RepoCustomers \ {c} :
                              customerObjs'[d] = customerObjs[d]]_vars

\* An order was refused whose order_id is that of an order in the list,
\* of another customer; the list has two orders and each customer with an
\* order there holds it once.
C28_Witness ==
    /\ last.op = "DataRepository.add_order"
    /\ last.ret = "False"
    /\ last.arg = 1
    /\ repository.orders = <<2, 3>>
    /\ customerObjs[1].orders = <<3>>
    /\ customerObjs[2].orders = <<2>>
    /\ Len(repository.customers) = 2
    /\ Len(repository.products) = 1

\* C29: when add_customer returns False the list of customers of the
\* repository is as it was before the call.
C29_RefusedCustomerNotKept ==
    [][(last'.op = "DataRepository.add_customer" /\ last'.ret = "False") =>
           repository'.customers = repository.customers]_vars

=============================================================================
